---- MODULE Spec2Model ----
(***************************************************************************)
(* The roulette of src/src/components/HeroRoulette.tsx as a state machine. *)
(*                                                                         *)
(* Heroes are the numbers 1..NumHeroes (their ids), None is "no hero".     *)
(* Lists are sequences.  Lengths are whole pixels and times whole          *)
(* milliseconds; the fractions progress, easedProgress and speedRatio are  *)
(* fixed-point numbers with Scale units to 1.                              *)
(*                                                                         *)
(* spinRoulette and resetRoulette are the controller's public operations   *)
(* and can be called in any state of the mounted component; what they do   *)
(* then is decided by their own code.  The filter controls (role           *)
(* checkboxes, ban cards, the two clear buttons) are reached through the   *)
(* rendered elements only, so their `disabled` attributes are guards.      *)
(*                                                                         *)
(* A handler runs to completion together with the renders and effects it   *)
(* causes; callbacks handed to requestAnimationFrame wait in a queue and   *)
(* run, in request order, when the next frame is delivered.                *)
(***************************************************************************)
EXTENDS Integers, Sequences, FiniteSets, Bags, TLC

\* ------------------------------------------------------------------ bounds
NumHeroes == 2
MaxTime == 21500
MaxPending == 2
MaxCalls == 3
MaxRawOffset == 1200
MaxBaseLength == 3
MaxPool == 5
ProgressSteps == 32
Scale == 10000
PanelHeroes == 10
TeamHeroes == 6
MaxWinners == 2
MaxRequests == 2
MaxHours == 24
MaxFetchCalls == 3
MaxInflight == 2

\* --------------------------------------------------------------- constants
BASE_SPIN_DURATION == 8200
SPIN_DURATION_PER_LOOP == 1800
DEFAULT_HERO_SLOT_WIDTH == 168
REPEAT_COUNT == 6
middleRepeatIndex == REPEAT_COUNT \div 2

None == 0
\* Date.now() when the session starts, in hours.
Epoch == 1000
\* The hours that pass between two calls.
ClockSteps == {6, 18}

\* ------------------------------------------------------------ input domains
\* Time that passes between two delivered frames: none, a quarter of the
\* longest spin, the whole of the longest spin.
LongestSpin == BASE_SPIN_DURATION + 5 * SPIN_DURATION_PER_LOOP
FrameDeltas == {0, LongestSpin \div 4, LongestSpin}
\* The widths (with margins) the layout can give a slot.
LayoutWidths == {DEFAULT_HERO_SLOT_WIDTH, 200}
\* The role checkboxes of the model (two of the five of roleLabels).
RoleOptions == {"carry", "support"}
\* The catalog the provider returns, sorted by id (part_000 line 30).
Catalog == [i \in 1..NumHeroes |-> i]
\* heroesRolesMap: hero 1 is a carry, the others have no known role; no hero
\* of the catalog is a support.
HeroRolesOf(h) == IF h = 1 THEN {"carry"} ELSE {}
\* The slot widths and the base lists applyVisualOffset is tried with.
OffsetWidths == {0, 1, 7, DEFAULT_HERO_SLOT_WIDTH}
BaseLists == {[i \in 1..n |-> i] : n \in 0..MaxBaseLength}
\* A width that is no finite number (NaN, Infinity) is this value.
NonFinite == 1000000000
\* The widths the layout may report for a slot: negative (margins), zero,
\* not finite, and around the default and another width.
MeasuredWidths ==
  {-8, 0, NonFinite} \cup ((DEFAULT_HERO_SLOT_WIDTH - 1)..(DEFAULT_HERO_SLOT_WIDTH + 1))
    \cup 199..201

\* ----------------------------------------------------------------- helpers
Min(a, b) == IF a <= b THEN a ELSE b
Max(a, b) == IF a >= b THEN a ELSE b
Range(s) == {s[i] : i \in 1..Len(s)}
\* The % of JavaScript: the remainder takes the sign of the dividend.
JsRem(a, b) == IF a >= 0 THEN a % b ELSE -((-a) % b)
\* Array.prototype.filter
RECURSIVE Filter(_, _)
Filter(s, keep) ==
  IF s = <<>> THEN <<>>
  ELSE IF Head(s) \in keep THEN <<Head(s)>> \o Filter(Tail(s), keep)
       ELSE Filter(Tail(s), keep)

\* ------------------------------------------------------------ shuffleList
\* The draws of one shuffleList call on a list of n elements: rnd[i] is the
\* value of Math.floor(Math.random() * (i + 1)) drawn for position i (0-based).
Draws(n) == IF n < 2 THEN {<<>>}
            ELSE {f \in [1..(n - 1) -> 0..(n - 1)] : \A i \in 1..(n - 1) : f[i] <= i}

Swap(array, i, j) ==
  [array EXCEPT ![i + 1] = array[j + 1], ![j + 1] = array[i + 1]]

RECURSIVE ShuffleFrom(_, _, _)
ShuffleFrom(array, i, rnd) ==
  IF i > 0 THEN ShuffleFrom(Swap(array, i, rnd[i]), i - 1, rnd) ELSE array

shuffleList(source, rnd) == ShuffleFrom(source, Len(source) - 1, rnd)

\* A shuffle that swaps the elements of the list it was given.
shuffleListInPlace(source, rnd) ==
  [source |-> shuffleList(source, rnd), array |-> shuffleList(source, rnd)]

\* One call of shuffleList: the list the caller passed, as the call leaves
\* it, and the array returned (line 29 copies the list, line 34 returns the
\* copy).
shuffleListCall(source, rnd) ==
  [source |-> source, array |-> shuffleList(source, rnd)]

\* ------------------------------------------------------ buildLoopedHeroes
\* Array.prototype.flat
RECURSIVE Flat(_)
Flat(lists) == IF lists = <<>> THEN <<>> ELSE Head(lists) \o Flat(Tail(lists))

\* A strip of middleRepeatIndex repetitions.
buildLoopedHeroesHalf(base) ==
  IF Len(base) = 0 THEN <<>>
  ELSE Flat([k \in 1..middleRepeatIndex |-> base])

buildLoopedHeroes(base) ==
  IF Len(base) = 0 THEN <<>>
  ELSE Flat([k \in 1..REPEAT_COUNT |-> base])

\* ----------------------------------------------------------- activeHeroes
activeHeroes(heroes, selectedRoles, bannedHeroIds) ==
  LET baseList ==
        IF selectedRoles = {} THEN heroes
        ELSE Filter(heroes, {h \in Range(heroes) : HeroRolesOf(h) \cap selectedRoles # {}})
  IN IF bannedHeroIds = {} THEN baseList
     ELSE Filter(baseList, Range(baseList) \ bannedHeroIds)

\* The list spinRoulette, resetRoulette and the reshuffle effect work on.
availableHeroes(heroes, selectedRoles, bannedHeroIds) ==
  LET active == activeHeroes(heroes, selectedRoles, bannedHeroIds)
  IN IF Len(active) > 0 THEN active ELSE heroes

initialOffset(activeHeroCount, heroSlotWidth) ==
  -(middleRepeatIndex * Max(activeHeroCount, 1) * heroSlotWidth)

\* -------------------------------------------------- mapProgressToDistance
\* x^5 for a fixed-point x in [0, Scale].
Pow5(x) == LET x2 == (x * x) \div Scale
               x3 == (x2 * x) \div Scale
               x4 == (x3 * x) \div Scale
           IN (x4 * x) \div Scale

\* An easing whose second half adds the mirrored term.
mapProgressToDistanceOvershoot(progress) ==
  IF progress <= 0 THEN 0
  ELSE IF progress >= Scale THEN Scale
  ELSE LET clamped == Min(Max(progress, 0), Scale)
       IN IF 2 * clamped < Scale THEN 16 * Pow5(clamped)
          ELSE LET mirrored == 2 * Scale - 2 * clamped
               IN Scale + (Pow5(mirrored) \div 2)

mapProgressToDistance(progress) ==
  IF progress <= 0 THEN 0
  ELSE IF progress >= Scale THEN Scale
  ELSE LET clamped == Min(Max(progress, 0), Scale)
       IN IF 2 * clamped < Scale THEN 16 * Pow5(clamped)
          ELSE LET mirrored == 2 * Scale - 2 * clamped
               IN Scale - (Pow5(mirrored) \div 2)

\* mapProgressToDistance without rounding: the progress is the fraction
\* k / d and the result is a numerator over the denominator 2 * d^5.
Power5(x) == x * x * x * x * x
\* the value 1
EaseUnit(d) == 2 * Power5(d)
\* line 590: 16 * clamped^5
EaseLowerHalf(k, d) == 32 * Power5(k)
\* lines 593-594: 1 - mirrored^5 / 2 with mirrored = -2 * clamped + 2
EaseUpperHalf(k, d) == EaseUnit(d) - Power5(2 * d - 2 * k)

\* An upper half that leaves out the division by 2.
mapProgressToDistanceUnhalved(k, d) ==
  IF k <= 0 THEN 0
  ELSE IF k >= d THEN EaseUnit(d)
  ELSE LET clamped == Min(Max(k, 0), d)
       IN IF 2 * clamped < d THEN EaseLowerHalf(clamped, d)
          ELSE EaseUnit(d) - 2 * Power5(2 * d - 2 * clamped)

mapProgressToDistanceExact(k, d) ==
  IF k <= 0 THEN 0
  ELSE IF k >= d THEN EaseUnit(d)
  ELSE LET clamped == Min(Max(k, 0), d)
       IN IF 2 * clamped < d THEN EaseLowerHalf(clamped, d)
          ELSE EaseUpperHalf(clamped, d)

\* ------------------------------------------------------ applyVisualOffset
\* The transform written for rawOffset (the caller has checked the strip
\* element exists).
\* A remainder taken once: negative for a negative rawOffset.
OffsetWithinLoopOneRem(rawOffset, loopWidth) == JsRem(rawOffset, loopWidth)

\* line 421
OffsetWithinLoop(rawOffset, loopWidth) ==
  JsRem(JsRem(rawOffset, loopWidth) + loopWidth, loopWidth)

\* A transform that follows the raw offset.
VisualOffsetUnbounded(rawOffset, slotWidth, baseLength) == rawOffset

\* A fallback that puts the strip at 0.
VisualOffsetZeroed(rawOffset, slotWidth, baseLength) ==
  IF slotWidth = 0 \/ baseLength = 0 THEN 0
  ELSE LET loopWidth == baseLength * slotWidth
           offsetWithinLoop == OffsetWithinLoop(rawOffset, loopWidth)
       IN offsetWithinLoop - middleRepeatIndex * loopWidth

VisualOffset(rawOffset, slotWidth, baseLength) ==
  IF slotWidth = 0 \/ baseLength = 0 THEN rawOffset
  ELSE LET loopWidth == baseLength * slotWidth
           offsetWithinLoop == OffsetWithinLoop(rawOffset, loopWidth)
       IN offsetWithinLoop - middleRepeatIndex * loopWidth


\* ------------------------------------------------------------------- state
VARIABLES
  \* React state (useState, lines 73-96)
  isSpinning, selectedHero, baseHeroesState, heroSlotWidth, selectedRoles,
  bannedHeroIds, heroes, isLoadingHeroes,
  \* refs (useRef, lines 97-103, 363-364) and the strip's style.transform
  animationFrameRef, isSpinningRef, heroSlotWidthRef, baseHeroesRef,
  virtualOffsetRef, transform, audioContextRef, buffersLoaded,
  \* the host: component mounted, clock, callbacks of the frame being
  \* delivered, callbacks requested for the next frame, the resize handler's
  \* resizeRaf
  mounted, now, frameQ, rafNext, resizeRaf,
  \* the width the layout gives a slot now (getBoundingClientRect plus margins)
  layoutWidth,
  \* the number of calls and events the component has handled since the
  \* catalog arrived
  calls,
  \* what the last handler did: its name and the winner it published, the
  \* sounds it played, and the heroes of the base list that the last accepted
  \* spinRoulette call found, and the timestamp of the first frame callback of
  \* the spin it started (-1 before that frame)
  event, sounds, poolAtSpin, firstFrameAt,
  \* what the last accepted spin has done so far: the raw offset its last
  \* frame applied (before the first frame, the start offset), the number of
  \* its playTickSound calls and the speedRatio of the last of them (-1
  \* before the first call)
  spinTrace,
  \* the call of a function of the module that is evaluated on its own
  \* (none while the component runs): the function, its arguments, and once
  \* it has returned its result
  call,
  \* React state of the items panel and of the AI modal (lines 87-96);
  \* heroItems and aiRecommendations are None or the id of the hero they were
  \* requested for
  heroItems, isLoadingItems, showItems, isAIModalOpen, myTeamHeroes,
  enemyTeamHeroes, aiRecommendations, isLoadingAIRecommendations,
  \* the promises of fetchHeroAllItems and getAIRecommendations that have not
  \* settled yet: a bag of [kind, hero]
  requests,
  \* the Stratz module and data/heroes: the operation that is exercised, the
  \* localStorage entry of each operation, whether an API key is configured,
  \* whether localStorage is full, Date.now() in hours, the module variables
  \* heroesCache (data/heroes, line 6) and stratzHeroesCache (data/heroRoles,
  \* line 6), the calls that wait for their response
  subject, localStorage, apiKey, storageFull, clock, heroesCache, stratzHeroesCache,
  inflight,
  \* the numbers of calls begun and returned, of requests sent to the API and
  \* of fetchHeroes calls made by loadHeroes; what the last call to return
  \* did; the lists loadHeroes has returned so far
  begun, completed, requestsSent, apiCalls, returned, returnedLists

component == <<isSpinning, selectedHero, baseHeroesState, heroSlotWidth, selectedRoles,
          bannedHeroIds, heroes, isLoadingHeroes, animationFrameRef, isSpinningRef,
          heroSlotWidthRef, baseHeroesRef, virtualOffsetRef, transform,
          audioContextRef, buffersLoaded, mounted, now, frameQ, rafNext, resizeRaf,
               layoutWidth, calls, event, sounds, poolAtSpin, firstFrameAt, spinTrace>>

panel == <<heroItems, isLoadingItems, showItems, isAIModalOpen, myTeamHeroes,
           enemyTeamHeroes, aiRecommendations, isLoadingAIRecommendations, requests>>

web == <<subject, localStorage, apiKey, storageFull, clock, heroesCache,
         stratzHeroesCache, inflight, begun, completed, requestsSent, apiCalls,
         returned, returnedLists>>

vars == <<component, call, panel, web>>

\* The panel after construction (useState, lines 87-96).
PanelInit ==
  /\ heroItems = None
  /\ isLoadingItems = FALSE
  /\ showItems = FALSE
  /\ isAIModalOpen = FALSE
  /\ myTeamHeroes = <<>>
  /\ enemyTeamHeroes = <<>>
  /\ aiRecommendations = None
  /\ isLoadingAIRecommendations = FALSE
  /\ requests = EmptyBag

\* The operations of src/src/api/stratz.ts that keep a localStorage cache.
FetchOperations == {"fetchHeroes", "fetchItems", "fetchAllHeroWinStats"}

\* localStorage.getItem(key): nothing, a string JSON.parse rejects, or the
\* JSON of {data, timestamp, dataTimestamp}; a missing dataTimestamp is 0.
NoEntry ==
  [present |-> FALSE, parsable |-> FALSE, isArray |-> FALSE, data |-> <<>>,
   timestamp |-> 0, dataTimestamp |-> 0]
Corrupt == [NoEntry EXCEPT !.present = TRUE]
Entry(isArray, data, timestamp, dataTimestamp) ==
  [present |-> TRUE, parsable |-> TRUE, isArray |-> isArray, data |-> data,
   timestamp |-> timestamp, dataTimestamp |-> dataTimestamp]

\* What a call returns.
Null == [isNull |-> TRUE, isArray |-> FALSE, data |-> <<>>]
Value(isArray, data) == [isNull |-> FALSE, isArray |-> isArray, data |-> data]

NotLoaded == [loaded |-> FALSE, list |-> <<>>]
Loaded(list) == [loaded |-> TRUE, list |-> list]

\* loadHeroes after its await (lines 22-46 of data/heroes) with
\* setStratzHeroesCache (data/heroRoles, lines 12-14): v is what fetchHeroes
\* returned, hc and sc the two module caches.  A value that is no array has
\* no sort method; the exception is caught.

NothingReturned ==
  [fn |-> "none", caller |-> "none", served |-> FALSE, requested |-> FALSE,
   outcome |-> "none", fetched |-> Null, value |-> Null, threw |-> FALSE,
   at |-> 0, listsBefore |-> {}]

\* No operation of the Stratz module has been called.
WebIdle ==
  /\ subject = "none"
  /\ localStorage = [fn \in FetchOperations |-> NoEntry]
  /\ apiKey = FALSE
  /\ storageFull = FALSE
  /\ clock = Epoch
  /\ heroesCache = NotLoaded
  /\ stratzHeroesCache = NotLoaded
  /\ inflight = <<>>
  /\ begun = 0
  /\ completed = 0
  /\ requestsSent = 0
  /\ apiCalls = 0
  /\ returned = NothingReturned
  /\ returnedLists = {}

NoCall == [fn |-> "none", done |-> FALSE]

\* The component's state as one record; the handlers below are functions
\* from such a record to the record they leave behind.
Cur ==
  [isSpinning |-> isSpinning, selectedHero |-> selectedHero,
   baseHeroesState |-> baseHeroesState, heroSlotWidth |-> heroSlotWidth,
   selectedRoles |-> selectedRoles, bannedHeroIds |-> bannedHeroIds,
   heroes |-> heroes, isLoadingHeroes |-> isLoadingHeroes,
   animationFrameRef |-> animationFrameRef, isSpinningRef |-> isSpinningRef,
   heroSlotWidthRef |-> heroSlotWidthRef, baseHeroesRef |-> baseHeroesRef,
   virtualOffsetRef |-> virtualOffsetRef, transform |-> transform,
   audioContextRef |-> audioContextRef, buffersLoaded |-> buffersLoaded,
   mounted |-> mounted, frameQ |-> frameQ, rafNext |-> rafNext,
   resizeRaf |-> resizeRaf, sounds |-> <<>>, op |-> "", winner |-> None]

Commit(r) ==
  /\ isSpinning' = r.isSpinning
  /\ selectedHero' = r.selectedHero
  /\ baseHeroesState' = r.baseHeroesState
  /\ heroSlotWidth' = r.heroSlotWidth
  /\ selectedRoles' = r.selectedRoles
  /\ bannedHeroIds' = r.bannedHeroIds
  /\ heroes' = r.heroes
  /\ isLoadingHeroes' = r.isLoadingHeroes
  /\ animationFrameRef' = r.animationFrameRef
  /\ isSpinningRef' = r.isSpinningRef
  /\ heroSlotWidthRef' = r.heroSlotWidthRef
  /\ baseHeroesRef' = r.baseHeroesRef
  /\ virtualOffsetRef' = r.virtualOffsetRef
  /\ transform' = r.transform
  /\ audioContextRef' = r.audioContextRef
  /\ buffersLoaded' = r.buffersLoaded
  /\ mounted' = r.mounted
  /\ frameQ' = r.frameQ
  /\ rafNext' = r.rafNext
  /\ resizeRaf' = r.resizeRaf
  /\ sounds' = r.sounds
  /\ event' = [op |-> r.op, winner |-> r.winner]
  /\ call' = call
  /\ UNCHANGED <<panel, web>>

\* ----------------------------------------------- requestAnimationFrame
\* The variables of one spinRoulette call that its step closure keeps.
NoClosure ==
  [slotWidth |-> 0, shuffledHeroes |-> <<>>, randomIndex |-> 0, extraLoops |-> 0,
   animationStart |-> 0, lastHeroIndex |-> -1]

Callback(id, kind, off, c) == [id |-> id, kind |-> kind, off |-> off, c |-> c]

Ids(q, kind) == {q[i].id : i \in {j \in 1..Len(q) : q[j].kind = kind}}

\* The host never reuses a request id.  animationFrameRef only ever holds ids
\* of step requests and resizeRaf ids of measure requests, and the ids of
\* centring requests are dropped, so the model numbers the requests of each
\* kind apart: a request gets the least positive id that no waiting request
\* of its kind has; the variable `keep`, which is about to be overwritten
\* with the new id, is the only other holder of an id of that kind.
FreshId(s, kind) ==
  LET used == Ids(s.frameQ, kind) \cup Ids(s.rafNext, kind)
  IN CHOOSE i \in 1..(Cardinality(used) + 1) :
       i \notin used /\ \A j \in 1..(i - 1) : j \in used

RECURSIVE Without(_, _, _)
Without(q, kind, id) ==
  IF q = <<>> THEN <<>>
  ELSE IF Head(q).kind = kind /\ Head(q).id = id THEN Without(Tail(q), kind, id)
       ELSE <<Head(q)>> \o Without(Tail(q), kind, id)

\* cancelAnimationFrame(id) for the id of a request of the given kind.
cancelAnimationFrame(s, kind, id) ==
  [s EXCEPT !.frameQ = Without(@, kind, id), !.rafNext = Without(@, kind, id)]

\* requestAnimationFrame(cb) whose id is stored in the variable `keep`
\* ("none": the id is dropped).
requestAnimationFrame(s, keep, kind, off, c) ==
  LET id == FreshId(s, kind)
      q == [s EXCEPT !.rafNext = Append(@, Callback(id, kind, off, c))]
  IN IF keep = "animationFrameRef" THEN [q EXCEPT !.animationFrameRef = id]
     ELSE IF keep = "resizeRaf" THEN [q EXCEPT !.resizeRaf = id]
     ELSE q

\* rouletteRef.current: the strip element exists once the loading screen is
\* gone and until the component is unmounted.
StripMounted(s) == s.mounted /\ ~s.isLoadingHeroes

applyVisualOffset(s, rawOffset) ==
  LET a == [s EXCEPT !.virtualOffsetRef = rawOffset]
  IN IF ~StripMounted(a) THEN a
     ELSE [a EXCEPT !.transform =
             VisualOffset(rawOffset, a.heroSlotWidthRef, Len(a.baseHeroesRef))]

\* measureHeroSlotWidth; w is rect.width plus the margins, slotRendered says
\* whether the strip holds a .roulette-hero element.
NumberIsFinite(w) == w # NonFinite

\* A measurement that is taken whenever a slot is rendered.
measureHeroSlotWidthUnchecked(s, w, slotRendered) ==
  IF ~StripMounted(s) THEN s
  ELSE IF ~slotRendered THEN s
  ELSE [s EXCEPT !.heroSlotWidthRef = w, !.heroSlotWidth = w]

measureHeroSlotWidth(s, w, slotRendered) ==
  IF ~StripMounted(s) THEN s
  ELSE IF ~slotRendered THEN s
  ELSE IF w = 0 THEN s
  ELSE IF ~NumberIsFinite(w) \/ w <= 0 THEN s
  ELSE IF 2 * (IF w >= s.heroSlotWidthRef THEN w - s.heroSlotWidthRef
               ELSE s.heroSlotWidthRef - w) <= 1 THEN s
  ELSE [s EXCEPT !.heroSlotWidthRef = w, !.heroSlotWidth = w]

Available(s) == availableHeroes(s.heroes, s.selectedRoles, s.bannedHeroIds)
ActiveCount(s) == Len(activeHeroes(s.heroes, s.selectedRoles, s.bannedHeroIds))
\* initialOffset as the render of state s computes it (line 361).
InitialOffsetOf(s) == initialOffset(ActiveCount(s), s.heroSlotWidth)


\* ------------------------------------------------------------------ audio
\* playTickSound and playWinSound: silent without a context or a buffer.
\* A tick that is played without looking at its buffer.
playTickSoundNoBufferCheck(s, speedRatio) ==
  IF ~s.audioContextRef THEN s
  ELSE [s EXCEPT !.sounds = Append(@, [kind |-> "tick", speedRatio |-> speedRatio])]

playTickSound(s, speedRatio) ==
  IF ~s.audioContextRef THEN s
  ELSE IF ~s.buffersLoaded THEN s
  ELSE [s EXCEPT !.sounds = Append(@, [kind |-> "tick", speedRatio |-> speedRatio])]

playWinSound(s) ==
  IF ~s.audioContextRef THEN s
  ELSE IF ~s.buffersLoaded THEN s
  ELSE [s EXCEPT !.sounds = Append(@, [kind |-> "finish", speedRatio |-> 0])]

\* ---------------------------------------------------------------- effects
\* The renders and effects that follow a handler.  pre is the state of the
\* last render before the handler, post the state the handler left;
\* bannedChanged and poolChanged say whether the handler replaced
\* bannedHeroIds and whether activeHeroes is a new list; rnd are the draws of
\* the reshuffle and w is what a measurement would yield.
\*   lines 246-250  clear a selection that is banned
\*   lines 466-471  reshuffle the base list when the pool changed
\*   lines 473-479  request the centring of the strip
\*   lines 428-464  re-measure when the strip's length changed
CentreEffect(s, changed) ==
  IF ~changed THEN s
  ELSE IF s.isSpinningRef THEN s
  ELSE IF s.selectedHero # None THEN s
  ELSE requestAnimationFrame(s, "none", "centre", InitialOffsetOf(s), NoClosure)

LayoutEffect(s, w) ==
  LET a == [cancelAnimationFrame(s, "measure", s.resizeRaf) EXCEPT !.resizeRaf = 0]
  IN IF Len(a.baseHeroesState) = 0 THEN a
     ELSE measureHeroSlotWidth(a, w, TRUE)

AfterRender(pre, post, bannedChanged, poolChanged, rnd, w) ==
  LET selChanged == pre.selectedHero # post.selectedHero
      clearSel == /\ bannedChanged \/ selChanged
                  /\ post.selectedHero # None
                  /\ post.selectedHero \in post.bannedHeroIds
      shuffled == shuffleList(Available(post), rnd)
      \* first render: passive effects
      e1 == IF poolChanged THEN [post EXCEPT !.baseHeroesRef = shuffled] ELSE post
      e2 == CentreEffect(e1, InitialOffsetOf(pre) # InitialOffsetOf(post) \/ selChanged)
      \* second render: the state the effects set
      r2 == [e2 EXCEPT !.selectedHero = IF clearSel THEN None ELSE @,
                       !.baseHeroesState = IF poolChanged THEN shuffled ELSE @]
      l2 == IF Len(r2.baseHeroesState) # Len(pre.baseHeroesState)
            THEN LayoutEffect(r2, w) ELSE r2
      c2 == CentreEffect([l2 EXCEPT !.heroSlotWidth = r2.heroSlotWidth], clearSel)
      \* third render: the slot width the layout effect measured
      r3 == [c2 EXCEPT !.heroSlotWidth = l2.heroSlotWidth]
  IN CentreEffect(r3, r3.heroSlotWidth # r2.heroSlotWidth)

\* ----------------------------------------------------------- spinRoulette
spinDuration(extraLoops) == BASE_SPIN_DURATION + extraLoops * SPIN_DURATION_PER_LOOP

StartOffset(c) == -(middleRepeatIndex * Len(c.shuffledHeroes) * c.slotWidth)
\* A target one slot past the winner.
TargetIndexNextSlot(c) ==
  middleRepeatIndex * Len(c.shuffledHeroes) + c.extraLoops * Len(c.shuffledHeroes)
    + c.randomIndex + 1

TargetIndex(c) ==
  middleRepeatIndex * Len(c.shuffledHeroes) + c.extraLoops * Len(c.shuffledHeroes)
    + c.randomIndex
\* A final offset that leaves randomIndex out.
FinalOffsetOfLoops(c) ==
  -((middleRepeatIndex + c.extraLoops) * Len(c.shuffledHeroes) * c.slotWidth)

FinalOffset(c) == -(TargetIndex(c) * c.slotWidth)
\* A winner read from the head of the list instead of from randomIndex.
RandomHeroFirst(c) == c.shuffledHeroes[1]

RandomHero(c) == c.shuffledHeroes[c.randomIndex + 1]

\* lines 625-629: r0 is the first draw, reroll says whether the second
\* Math.random() was below 0.35, r1 is the re-rolled index.
\* A re-roll that is taken whenever the first draw is 0.
PickIndexAlwaysRerolls(availableCount, r0, reroll, r1) ==
  IF availableCount > 1 /\ r0 = 0 THEN r1 ELSE r0

\* A re-roll that leaves out the 1 +.
PickIndexFromZero(availableCount, r0, reroll, r1) ==
  IF availableCount > 1 /\ r0 = 0 /\ reroll THEN r1 - 1 ELSE r0

PickIndex(availableCount, r0, reroll, r1) ==
  IF availableCount > 1 /\ r0 = 0 /\ reroll THEN r1 ELSE r0

\* spinRoulette without its re-entrancy guard.
SpinRejectedNever(s) == FALSE

\* line 598
SpinRejected(s) == s.isSpinningRef

\* A spin that keeps the hero of the spin before.
BeginSpinKeepsHero(s) ==
  [s EXCEPT !.isSpinningRef = TRUE, !.isSpinning = TRUE]

\* lines 605-607
BeginSpin(s) ==
  [s EXCEPT !.isSpinningRef = TRUE, !.isSpinning = TRUE, !.selectedHero = None]

\* An abort on the empty list that forgets isSpinningRef.
AbortEmptyKeepsRef(s) ==
  [s EXCEPT !.isSpinning = FALSE, !.op = "spin-empty"]

\* lines 619-623
AbortEmpty(s) ==
  [s EXCEPT !.isSpinningRef = FALSE, !.isSpinning = FALSE, !.op = "spin-empty"]

spinRoulette(s, rnd, r0, reroll, r1, extraLoops, w) ==
  IF SpinRejected(s) THEN [s EXCEPT !.op = "spin-ignored"]
  ELSE
    LET a == IF s.animationFrameRef # 0
             THEN [cancelAnimationFrame(s, "step", s.animationFrameRef)
                     EXCEPT !.animationFrameRef = 0]
             ELSE s
        b == BeginSpin(a)
        m == measureHeroSlotWidth(b, w, Len(s.baseHeroesState) > 0)
        shuffledHeroes == shuffleList(Available(s), rnd)
        d == [m EXCEPT !.baseHeroesRef = shuffledHeroes, !.baseHeroesState = shuffledHeroes]
        availableCount == Len(shuffledHeroes)
        c == [slotWidth |-> m.heroSlotWidthRef, shuffledHeroes |-> shuffledHeroes,
              randomIndex |-> PickIndex(availableCount, r0, reroll, r1),
              extraLoops |-> extraLoops, animationStart |-> 0, lastHeroIndex |-> -1]
    IN IF availableCount = 0
       THEN AbortEmpty(d)
       ELSE [requestAnimationFrame(applyVisualOffset(d, StartOffset(c)),
                                   "animationFrameRef", "step", 0, c)
               EXCEPT !.op = "spin"]

\* ------------------------------------------------------------------- step
\* line 648: animationStart is taken from the first frame.
AnimationStart(c, timestamp) ==
  IF c.animationStart = 0 THEN timestamp ELSE c.animationStart

Progress(c, timestamp) ==
  Min(((timestamp - AnimationStart(c, timestamp)) * Scale) \div spinDuration(c.extraLoops),
      Scale)

CurrentOffset(c, progress) ==
  LET totalDistance == FinalOffset(c) - StartOffset(c)
  IN StartOffset(c) - (((-totalDistance) * mapProgressToDistance(progress)) \div Scale)

HeroIndex(c, currentOffset) ==
  LET baseLength == Len(c.shuffledHeroes)
      rawIndex == (-currentOffset) \div c.slotWidth
  IN JsRem(JsRem(rawIndex, baseLength) + baseLength, baseLength)

\* A frame loop that never sees the end of the spin.
StepContinuesAlways(progress) == TRUE

\* line 670
StepContinues(progress) == progress < Scale

\* A completing frame that still requests the next frame.
FinishSpinReschedules(s, c) ==
  requestAnimationFrame(
    playWinSound([applyVisualOffset([s EXCEPT !.isSpinningRef = FALSE,
                                              !.isSpinning = FALSE], FinalOffset(c))
                    EXCEPT !.selectedHero = RandomHero(c), !.winner = RandomHero(c),
                           !.op = "complete"]),
    "animationFrameRef", "step", 0, c)

\* A completing frame that plays the finish sound before and after it
\* publishes the winner.
FinishSpinTwice(s, c) ==
  playWinSound([applyVisualOffset(playWinSound([s EXCEPT !.animationFrameRef = 0,
                                                         !.isSpinningRef = FALSE,
                                                         !.isSpinning = FALSE]),
                                  FinalOffset(c))
                  EXCEPT !.selectedHero = RandomHero(c), !.winner = RandomHero(c),
                         !.op = "complete"])

\* lines 672-679
FinishSpin(s, c) ==
  playWinSound([applyVisualOffset([s EXCEPT !.animationFrameRef = 0,
                                            !.isSpinningRef = FALSE,
                                            !.isSpinning = FALSE], FinalOffset(c))
                  EXCEPT !.selectedHero = RandomHero(c), !.winner = RandomHero(c),
                         !.op = "complete"])

\* line 655: the raw offset the frame with this timestamp applies.
StepOffset(c, timestamp) ==
  CurrentOffset([c EXCEPT !.animationStart = AnimationStart(c, timestamp)],
                Progress(c, timestamp))

\* A tick in every frame.
TickDueEveryFrame(c, timestamp) ==
  c.slotWidth > 0 /\ Len(c.shuffledHeroes) > 0

\* lines 660-663: the pointer is on another hero than in the frame before.
TickDue(c, timestamp) ==
  /\ c.slotWidth > 0 /\ Len(c.shuffledHeroes) > 0
  /\ HeroIndex(c, StepOffset(c, timestamp)) # c.lastHeroIndex

\* A speed ratio that grows with the progress.
SpeedRatioRising(progress) == Max(Scale \div 20, progress)

\* line 664
SpeedRatio(progress) == Max(Scale \div 20, Scale - progress)

step(s, c, timestamp) ==
  LET c1 == [c EXCEPT !.animationStart = AnimationStart(c, timestamp)]
      progress == Progress(c, timestamp)
      currentOffset == StepOffset(c, timestamp)
      a == applyVisualOffset(s, currentOffset)
      ticks == TickDue(c, timestamp)
      b == IF ticks THEN playTickSound(a, SpeedRatio(progress)) ELSE a
      c2 == IF ticks THEN [c1 EXCEPT !.lastHeroIndex = HeroIndex(c1, currentOffset)] ELSE c1
  IN IF StepContinues(progress)
     THEN [requestAnimationFrame(b, "animationFrameRef", "step", 0, c2) EXCEPT !.op = "step"]
     ELSE FinishSpin(b, c2)

\* ---------------------------------------------------------- resetRoulette
resetRoulette(s, rnd) ==
  LET shuffled == shuffleList(Available(s), rnd)
      a == [s EXCEPT !.selectedHero = None, !.baseHeroesRef = shuffled,
                     !.baseHeroesState = shuffled, !.op = "reset"]
  IN applyVisualOffset(a, InitialOffsetOf(s))

\* ------------------------------------------------------------ the filters
toggleHeroBan(s, heroId) ==
  [s EXCEPT !.bannedHeroIds = IF heroId \in @ THEN @ \ {heroId} ELSE @ \cup {heroId},
            !.op = "toggleHeroBan"]

clearHeroBans(s) == [s EXCEPT !.bannedHeroIds = {}, !.op = "clearHeroBans"]

toggleRole(s, role) ==
  [s EXCEPT !.selectedRoles = IF role \in @ THEN @ \ {role} ELSE @ \cup {role},
            !.op = "toggleRole"]

clearRoles(s) == [s EXCEPT !.selectedRoles = {}, !.op = "clearRoles"]

\* An unmount whose cleanup leaves the spin's frame request alone.
unmountKeepsFrame(s) ==
  LET a == IF s.resizeRaf # 0 THEN cancelAnimationFrame(s, "measure", s.resizeRaf) ELSE s
  IN [a EXCEPT !.mounted = FALSE, !.op = "unmount"]

\* lines 528-532 and 457-463: the cleanups that run at unmount.
unmount(s) ==
  LET a == IF s.resizeRaf # 0 THEN cancelAnimationFrame(s, "measure", s.resizeRaf) ELSE s
      b == IF a.animationFrameRef # 0
           THEN cancelAnimationFrame(a, "step", a.animationFrameRef) ELSE a
  IN [b EXCEPT !.mounted = FALSE, !.op = "unmount"]


\* ----------------------------------------------------------- specification
Init ==
  /\ isSpinning = FALSE
  /\ selectedHero = None
  /\ baseHeroesState = <<>>
  /\ heroSlotWidth = DEFAULT_HERO_SLOT_WIDTH
  /\ selectedRoles = {}
  /\ bannedHeroIds = {}
  /\ heroes = <<>>
  /\ isLoadingHeroes = TRUE
  /\ animationFrameRef = 0
  /\ isSpinningRef = FALSE
  /\ heroSlotWidthRef = DEFAULT_HERO_SLOT_WIDTH
  /\ baseHeroesRef = <<>>
  /\ virtualOffsetRef = initialOffset(0, DEFAULT_HERO_SLOT_WIDTH)
  /\ transform = 0
  /\ audioContextRef \in BOOLEAN
  /\ buffersLoaded = FALSE
  /\ mounted = TRUE
  /\ now = 0
  /\ frameQ = <<>>
  \* the centring effect of the first render has run
  /\ rafNext = <<Callback(1, "centre", initialOffset(0, DEFAULT_HERO_SLOT_WIDTH), NoClosure)>>
  /\ resizeRaf = 0
  /\ layoutWidth = DEFAULT_HERO_SLOT_WIDTH
  /\ calls = 0
  /\ event = [op |-> "mount", winner |-> None]
  /\ sounds = <<>>
  /\ poolAtSpin = {}
  /\ firstFrameAt = -1
  /\ spinTrace = [offset |-> 0, ticks |-> 0, speedRatio |-> -1]
  /\ call = NoCall
  /\ PanelInit
  /\ WebIdle

\* A handler's result is taken when the callbacks it leaves pending fit the
\* model's queue.
Fits(r) == Len(r.frameQ) + Len(r.rafNext) <= MaxPending

\* No handler runs between the callbacks of one frame.
BetweenFrames == frameQ = <<>>

\* One more call or event is handled.
Called == calls < MaxCalls /\ calls' = calls + 1

\* lines 106-139: loadHeroesData resolves with the catalog or with null.
LoadHeroes ==
  /\ mounted /\ BetweenFrames /\ isLoadingHeroes
  /\ \E ok \in BOOLEAN :
       LET post == [Cur EXCEPT !.heroes = IF ok THEN Catalog ELSE <<>>,
                               !.isLoadingHeroes = FALSE, !.op = "loadHeroes"]
       IN \E rnd \in Draws(Len(Available(post))) :
            LET r == AfterRender(Cur, post, FALSE, TRUE, rnd, layoutWidth)
            IN Fits(r) /\ Commit(r)
  /\ UNCHANGED <<now, poolAtSpin, firstFrameAt, layoutWidth, spinTrace>>
  /\ UNCHANGED calls

\* lines 497-526: loadBuffers has decoded both sounds.  The sounds are
\* requested at mount; in the model they arrive before the catalog or never.
LoadAudio ==
  /\ audioContextRef /\ ~buffersLoaded /\ BetweenFrames /\ isLoadingHeroes
  /\ Commit([Cur EXCEPT !.buffersLoaded = TRUE, !.op = "loadAudio"])
  /\ UNCHANGED <<now, poolAtSpin, firstFrameAt, layoutWidth, spinTrace>>
  /\ UNCHANGED calls

\* The values Math.random() yields in one spinRoulette call: the draws of the
\* shuffle, the first index, whether the re-roll happens and to which index,
\* and the extra loops.  A call that returns before it draws leaves them unused.
SpinDraws ==
  LET n == Len(Available(Cur))
  IN IF SpinRejected(Cur) \/ n = 0
     THEN {[rnd |-> <<>>, r0 |-> 0, reroll |-> FALSE, r1 |-> 1, extraLoops |-> 2]}
     ELSE {d \in [rnd : Draws(n), r0 : 0..(n - 1), reroll : BOOLEAN, r1 : 1..Max(n - 1, 1),
                  extraLoops : 2..5] :
             /\ d.reroll => (n > 1 /\ d.r0 = 0)
             /\ ~d.reroll => d.r1 = 1}

Spin ==
  /\ Called
  /\ mounted /\ BetweenFrames
  /\ \E d \in SpinDraws :
       LET r == AfterRender(Cur, spinRoulette(Cur, d.rnd, d.r0, d.reroll, d.r1, d.extraLoops,
                                              layoutWidth),
                            FALSE, FALSE, <<>>, layoutWidth)
       IN /\ Fits(r) /\ Commit(r)
          /\ poolAtSpin' = IF r.op = "spin" THEN Range(baseHeroesRef) ELSE poolAtSpin
          /\ firstFrameAt' = IF r.op = "spin" THEN -1 ELSE firstFrameAt
          /\ spinTrace' = IF r.op = "spin"
                          THEN [offset |-> r.virtualOffsetRef, ticks |-> 0, speedRatio |-> -1]
                          ELSE spinTrace
  /\ UNCHANGED <<now, layoutWidth>>

Reset ==
  /\ Called
  /\ mounted /\ BetweenFrames
  /\ \E rnd \in Draws(Len(Available(Cur))) :
       LET r == AfterRender(Cur, resetRoulette(Cur, rnd), FALSE, FALSE, <<>>, layoutWidth)
       IN Fits(r) /\ Commit(r)
  /\ UNCHANGED <<now, poolAtSpin, firstFrameAt, layoutWidth, spinTrace>>

\* A change of the filters; `disabled` of the control is the guard.
FilterChange(post, bannedChanged) ==
  /\ \E rnd \in Draws(Len(Available(post))) :
       LET r == AfterRender(Cur, post, bannedChanged, TRUE, rnd, layoutWidth)
       IN Fits(r) /\ Commit(r)
  /\ UNCHANGED <<now, poolAtSpin, firstFrameAt, layoutWidth, spinTrace>>

ToggleHeroBan ==
  /\ Called
  /\ mounted /\ BetweenFrames /\ ~isLoadingHeroes /\ ~isSpinning
  /\ \E heroId \in Range(heroes) : FilterChange(toggleHeroBan(Cur, heroId), TRUE)

ClearHeroBans ==
  /\ Called
  /\ mounted /\ BetweenFrames /\ ~isLoadingHeroes /\ bannedHeroIds # {}
  /\ FilterChange(clearHeroBans(Cur), TRUE)

ToggleRole ==
  /\ Called
  /\ mounted /\ BetweenFrames /\ ~isLoadingHeroes /\ ~isSpinning
  /\ \E role \in RoleOptions : FilterChange(toggleRole(Cur, role), FALSE)

ClearRoles ==
  /\ Called
  /\ mounted /\ BetweenFrames /\ ~isLoadingHeroes /\ ~isSpinning /\ selectedRoles # {}
  /\ FilterChange(clearRoles(Cur), FALSE)

\* lines 439-446: resizeHandler, registered while the strip has slots; the
\* window or the first slot has a new size.
ResizeEvent ==
  /\ Called
  /\ mounted /\ BetweenFrames /\ ~isLoadingHeroes /\ Len(baseHeroesState) > 0
  /\ layoutWidth' \in LayoutWidths \ {layoutWidth}
  /\ LET a == IF resizeRaf # 0 THEN cancelAnimationFrame(Cur, "measure", resizeRaf) ELSE Cur
         r == [requestAnimationFrame(a, "resizeRaf", "measure", 0, NoClosure)
                 EXCEPT !.op = "resize"]
     IN Fits(r) /\ Commit(r)
  /\ UNCHANGED <<now, poolAtSpin, firstFrameAt, spinTrace>>

Teardown ==
  /\ Called
  /\ mounted /\ BetweenFrames
  /\ Commit(unmount(Cur))
  /\ UNCHANGED <<now, poolAtSpin, firstFrameAt, layoutWidth, spinTrace>>

\* The host delivers a frame: every callback requested so far runs with the
\* frame's timestamp.  Only step reads the timestamp, so the clock of the
\* model stands still while no step is waiting.
StepWaiting == \E i \in 1..Len(rafNext) : rafNext[i].kind = "step"

BeginFrame ==
  /\ BetweenFrames /\ rafNext # <<>>
  /\ \E dt \in (IF StepWaiting THEN FrameDeltas ELSE {0}) :
       /\ now + dt <= MaxTime
       /\ now' = now + dt
  /\ Commit([Cur EXCEPT !.frameQ = rafNext, !.rafNext = <<>>, !.op = "frame"])
  /\ UNCHANGED <<poolAtSpin, firstFrameAt, layoutWidth, spinTrace>>
  /\ UNCHANGED calls

Popped == [Cur EXCEPT !.frameQ = Tail(@)]

StepFrame ==
  /\ frameQ # <<>> /\ Head(frameQ).kind = "step"
  /\ LET r == AfterRender(Cur, step(Popped, Head(frameQ).c, now), FALSE, FALSE, <<>>,
                          layoutWidth)
     IN Commit(r)
  /\ firstFrameAt' = IF firstFrameAt = -1 THEN now ELSE firstFrameAt
  /\ LET c == Head(frameQ).c
     IN spinTrace' =
          [offset |-> StepOffset(c, now),
           ticks |-> IF TickDue(c, now) THEN spinTrace.ticks + 1 ELSE spinTrace.ticks,
           speedRatio |-> IF TickDue(c, now) THEN SpeedRatio(Progress(c, now))
                          ELSE spinTrace.speedRatio]
  /\ UNCHANGED <<now, poolAtSpin, layoutWidth>>
  /\ UNCHANGED calls

CentreFrame ==
  /\ frameQ # <<>> /\ Head(frameQ).kind = "centre"
  /\ Commit([applyVisualOffset(Popped, Head(frameQ).off) EXCEPT !.op = "centre"])
  /\ UNCHANGED <<now, poolAtSpin, firstFrameAt, layoutWidth, spinTrace>>
  /\ UNCHANGED calls

MeasureFrame ==
  /\ frameQ # <<>> /\ Head(frameQ).kind = "measure"
  /\ LET m == [measureHeroSlotWidth(Popped, layoutWidth, Len(baseHeroesState) > 0)
                 EXCEPT !.op = "measure"]
         r == AfterRender(Cur, m, FALSE, FALSE, <<>>, layoutWidth)
     IN Fits(r) /\ Commit(r)
  /\ UNCHANGED <<now, poolAtSpin, firstFrameAt, layoutWidth, spinTrace>>
  /\ UNCHANGED calls

Next ==
  \/ LoadHeroes
  \/ LoadAudio
  \/ Spin
  \/ Reset
  \/ ToggleHeroBan
  \/ ClearHeroBans
  \/ ToggleRole
  \/ ClearRoles
  \/ ResizeEvent
  \/ Teardown
  \/ BeginFrame
  \/ StepFrame
  \/ CentreFrame
  \/ MeasureFrame

Spec == Init /\ [][Next]_vars

\* The host keeps delivering frames: a requested frame is delivered, its
\* callbacks run, and as long as the clock of the model can advance some
\* frame comes with a later timestamp than the one before.
FrameAdvances == BeginFrame /\ now' > now

\* The callback at the head of the frame being delivered is of this kind;
\* nothing but that callback can run then, and it always can.
AtHead(kind) == frameQ # <<>> /\ Head(frameQ).kind = kind
\* Weak fairness of StepFrame and of MeasureFrame, written with AtHead as
\* their enabling condition.
StepFrameRuns ==
  []<>~AtHead("step") \/ []<><<AtHead("step") /\ frameQ' = Tail(frameQ)>>_vars
MeasureFrameRuns ==
  []<>~AtHead("measure") \/ []<><<AtHead("measure") /\ frameQ' = Tail(frameQ)>>_vars

SpecLive ==
  /\ Init /\ [][Next]_vars
  /\ WF_vars(BeginFrame) /\ SF_vars(FrameAdvances)
  /\ WF_vars(CentreFrame) /\ StepFrameRuns /\ MeasureFrameRuns

\* line 142: the strip the render shows.
loopedHeroes == buildLoopedHeroes(baseHeroesState)

\* The component driven through its rendered controls only: the spin button
\* is disabled while spinning and while the active pool is empty (line 846),
\* the reset button exists while a hero is shown and no spin runs (line 852).
SpinButtonEnabled == ~isLoadingHeroes /\ ~isSpinning /\ ActiveCount(Cur) # 0
ResetButtonShown == ~isLoadingHeroes /\ selectedHero # None /\ ~isSpinning

ClickSpin == SpinButtonEnabled /\ Spin
ClickReset == ResetButtonShown /\ Reset

NextUI ==
  \/ LoadHeroes
  \/ LoadAudio
  \/ ClickSpin
  \/ ClickReset
  \/ ToggleHeroBan
  \/ ClearHeroBans
  \/ ToggleRole
  \/ ClearRoles
  \/ ResizeEvent
  \/ Teardown
  \/ BeginFrame
  \/ StepFrame
  \/ CentreFrame
  \/ MeasureFrame

SpecUI == Init /\ [][NextUI]_vars

\* ------------------------------------------------- applyVisualOffset alone
\* The strip is rendered from some base list with some slot width and stands
\* centred; applyVisualOffset is called with raw offsets of either sign that
\* differ from the one before by a pixel or by a whole loop, or with the
\* same raw offset again.
InitOffsets ==
  /\ isSpinning = FALSE
  /\ selectedHero = None
  /\ baseHeroesRef \in BaseLists
  /\ baseHeroesState = baseHeroesRef
  /\ heroSlotWidthRef \in OffsetWidths
  /\ heroSlotWidth = heroSlotWidthRef
  /\ selectedRoles = {}
  /\ bannedHeroIds = {}
  /\ heroes = baseHeroesRef
  /\ isLoadingHeroes = FALSE
  /\ animationFrameRef = 0
  /\ isSpinningRef = FALSE
  /\ virtualOffsetRef = initialOffset(Len(baseHeroesRef), heroSlotWidthRef)
  /\ transform = VisualOffset(virtualOffsetRef, heroSlotWidthRef, Len(baseHeroesRef))
  /\ audioContextRef = FALSE
  /\ buffersLoaded = FALSE
  /\ mounted = TRUE
  /\ now = 0
  /\ frameQ = <<>>
  /\ rafNext = <<>>
  /\ resizeRaf = 0
  /\ layoutWidth = heroSlotWidthRef
  /\ calls = 0
  /\ event = [op |-> "centre", winner |-> None]
  /\ sounds = <<>>
  /\ poolAtSpin = {}
  /\ firstFrameAt = -1
  /\ spinTrace = [offset |-> 0, ticks |-> 0, speedRatio |-> -1]
  /\ call = NoCall
  /\ PanelInit
  /\ WebIdle

LoopWidth == Len(baseHeroesRef) * heroSlotWidthRef

ApplyOffset(rawOffset, op) ==
  /\ -MaxRawOffset <= rawOffset /\ rawOffset <= MaxRawOffset
  /\ Commit([applyVisualOffset(Cur, rawOffset) EXCEPT !.op = op])
  /\ UNCHANGED <<now, calls, poolAtSpin, firstFrameAt, layoutWidth, spinTrace>>

ScrollPixel ==
  /\ mounted
  /\ \E d \in {-1, 1} : ApplyOffset(virtualOffsetRef + d, "pixel")

ScrollLoop ==
  /\ mounted
  /\ \E k \in {-1, 1} : ApplyOffset(virtualOffsetRef + k * LoopWidth, "loop")

ApplyAgain ==
  /\ mounted
  /\ ApplyOffset(virtualOffsetRef, "again")

NextOffsets ==
  \/ ScrollPixel
  \/ ScrollLoop
  \/ ApplyAgain

SpecOffsets == InitOffsets /\ [][NextOffsets]_vars

\* -------------------------------------------- measureHeroSlotWidth alone
\* The strip is rendered from some base list, or from none, with the default
\* slot width; the layout reports a width and measureHeroSlotWidth is called.
InitMeasure ==
  /\ InitOffsets
  /\ heroSlotWidthRef = DEFAULT_HERO_SLOT_WIDTH

LayoutChanges ==
  /\ mounted /\ BetweenFrames
  /\ layoutWidth' \in MeasuredWidths \ {layoutWidth}
  /\ Commit([Cur EXCEPT !.op = "layout"])
  /\ UNCHANGED <<now, calls, poolAtSpin, firstFrameAt, spinTrace>>

MeasureSlot ==
  /\ mounted /\ BetweenFrames
  /\ LET m == [measureHeroSlotWidth(Cur, layoutWidth, Len(baseHeroesState) > 0)
                 EXCEPT !.op = "measure"]
         r == AfterRender(Cur, m, FALSE, FALSE, <<>>, layoutWidth)
     IN Fits(r) /\ Commit(r)
  /\ UNCHANGED <<now, calls, poolAtSpin, firstFrameAt, layoutWidth, spinTrace>>

NextMeasure ==
  \/ LayoutChanges
  \/ MeasureSlot
  \/ BeginFrame
  \/ CentreFrame

SpecMeasure == InitMeasure /\ [][NextMeasure]_vars

\* ------------------------------------------------ functions on their own
\* No component is mounted; one call of a function of the module is
\* evaluated on arguments drawn from its domain.
Detached ==
  /\ isSpinning = FALSE
  /\ selectedHero = None
  /\ baseHeroesState = <<>>
  /\ heroSlotWidth = DEFAULT_HERO_SLOT_WIDTH
  /\ selectedRoles = {}
  /\ bannedHeroIds = {}
  /\ heroes = <<>>
  /\ isLoadingHeroes = TRUE
  /\ animationFrameRef = 0
  /\ isSpinningRef = FALSE
  /\ heroSlotWidthRef = DEFAULT_HERO_SLOT_WIDTH
  /\ baseHeroesRef = <<>>
  /\ virtualOffsetRef = 0
  /\ transform = 0
  /\ audioContextRef = FALSE
  /\ buffersLoaded = FALSE
  /\ mounted = FALSE
  /\ now = 0
  /\ frameQ = <<>>
  /\ rafNext = <<>>
  /\ resizeRaf = 0
  /\ layoutWidth = DEFAULT_HERO_SLOT_WIDTH
  /\ calls = 0
  /\ event = [op |-> "none", winner |-> None]
  /\ sounds = <<>>
  /\ poolAtSpin = {}
  /\ firstFrameAt = -1
  /\ spinTrace = [offset |-> 0, ticks |-> 0, speedRatio |-> -1]

\* The draws of lines 625-628 for a pool of availableCount heroes: r0 is
\* Math.floor(Math.random() * availableCount), reroll is Math.random() < 0.35
\* and r1 is 1 + Math.floor(Math.random() * (availableCount - 1)).
RandomIndexCalls ==
  {c \in [fn : {"randomIndex"}, availableCount : 1..MaxPool, r0 : 0..(MaxPool - 1),
          reroll : BOOLEAN, r1 : 1..Max(MaxPool - 1, 1), done : {FALSE}, result : {-1}] :
     /\ c.r0 < c.availableCount
     /\ c.r1 <= Max(c.availableCount - 1, 1)}

\* line 627: Math.random() < 0.35, with Math.random() in hundredths.
REROLL_PERCENT == 35
\* What Math.random() can yield in the three draws of lines 625-628 for a
\* pool of n >= 2 heroes; Math.random() is uniform, so each of these is as
\* likely as any other.
RandomOutcomes(n) == [r0 : 0..(n - 1), u : 0..99, r1 : 1..(n - 1)]
\* The randomIndex of lines 625-629 for the draws w.
RandomIndexOf(n, w) == PickIndex(n, w.r0, w.u < REROLL_PERCENT, w.r1)
\* The number of equally likely draws that select index i.
Favourable(n, i) == Cardinality({w \in RandomOutcomes(n) : RandomIndexOf(n, w) = i})

CallRandomIndex ==
  /\ call.fn = "randomIndex" /\ ~call.done
  /\ call' = [call EXCEPT !.done = TRUE,
                          !.result = PickIndex(call.availableCount, call.r0, call.reroll,
                                               call.r1)]
  /\ UNCHANGED <<component, panel, web>>

\* mapProgressToDistance is called with a progress of k / ProgressSteps
\* between -1 and 2.
ProgressGrid == (-ProgressSteps)..(2 * ProgressSteps)

EaseCalls ==
  [fn : {"mapProgressToDistance"}, progress : ProgressGrid, done : {FALSE}, result : {-1}]

CallMapProgressToDistance ==
  /\ call.fn = "mapProgressToDistance" /\ ~call.done
  /\ call' = [call EXCEPT !.done = TRUE,
                          !.result = mapProgressToDistanceExact(call.progress, ProgressSteps)]
  /\ UNCHANGED <<component, panel, web>>

\* shuffleList is called with a list of up to MaxBaseLength heroes, which
\* may hold a hero more than once; before is the list as it was passed.
ShuffleSources == UNION {[1..n -> 1..MaxBaseLength] : n \in 0..MaxBaseLength}

ShuffleCalls ==
  {c \in [fn : {"shuffleList"}, source : ShuffleSources, before : ShuffleSources,
          done : {FALSE}, result : {<<>>}] : c.source = c.before}

CallShuffleList ==
  /\ call.fn = "shuffleList" /\ ~call.done
  /\ \E rnd \in Draws(Len(call.source)) :
       LET r == shuffleListCall(call.source, rnd)
       IN call' = [call EXCEPT !.done = TRUE, !.source = r.source, !.result = r.array]
  /\ UNCHANGED <<component, panel, web>>

\* ------------------------------------------------- mapRoleIdToHeroRole
\* The role ids of the Stratz API (src/src/api/stratz.ts).
StratzRoles ==
  {"CARRY", "NUKER", "INITIATOR", "DURABLE", "ESCAPE", "DISABLER", "SUPPORT",
   "PUSHER", "JUNGLER"}

\* result.push(role) behind the test !result.includes(role).
PushNew(result, role) ==
  IF \E i \in 1..Len(result) : result[i] = role THEN result ELSE Append(result, role)

canBeMid(roleIds) ==
  \/ "NUKER" \in roleIds \/ "PUSHER" \in roleIds
  \/ ("CARRY" \in roleIds /\ ("NUKER" \in roleIds \/ "PUSHER" \in roleIds))

canBeOfflaneWithCarry(roleIds) ==
  \/ "INITIATOR" \in roleIds
  \/ "DURABLE" \in roleIds
  \/ ("INITIATOR" \in roleIds /\ "DURABLE" \in roleIds)

canBeOfflane(roleIds) ==
  \/ "INITIATOR" \in roleIds
  \/ ("DURABLE" \in roleIds /\ "CARRY" \notin roleIds)
  \/ ("INITIATOR" \in roleIds /\ "DURABLE" \in roleIds)

hasAggressiveRoles(roleIds) ==
  \/ "DISABLER" \in roleIds \/ "NUKER" \in roleIds
  \/ "INITIATOR" \in roleIds \/ "PUSHER" \in roleIds

\* Lines 27-110: result before the fallback block.  roleIds is only read
\* with includes, so it is the set of its elements.
RolesBeforeFallback(roleIds) ==
  LET r1 == IF "CARRY" \in roleIds THEN <<"carry">> ELSE <<>>
      r2 == IF canBeMid(roleIds) THEN PushNew(r1, "mid") ELSE r1
      r3 == IF canBeOfflane(roleIds) THEN PushNew(r2, "offlane") ELSE r2
      r4 == IF "SUPPORT" \in roleIds THEN PushNew(r3, "hard-support") ELSE r3
      r5 == IF "SUPPORT" \in roleIds /\ hasAggressiveRoles(roleIds)
            THEN PushNew(r4, "soft-support") ELSE r4
      r6 == IF "CARRY" \in roleIds /\ "INITIATOR" \in roleIds
            THEN PushNew(r5, "offlane") ELSE r5
      r7 == IF "INITIATOR" \in roleIds /\ "PUSHER" \in roleIds /\ "CARRY" \notin roleIds
            THEN PushNew(r6, "mid") ELSE r6
      r8 == IF /\ "DURABLE" \in roleIds
               /\ roleIds \cap {"CARRY", "SUPPORT", "INITIATOR", "NUKER", "PUSHER"} = {}
            THEN PushNew(r7, "offlane") ELSE r7
  IN r8

\* Lines 112-123.
RolesFallback(roleIds, result) ==
  IF Len(result) # 0 THEN result
  ELSE IF "CARRY" \in roleIds THEN Append(result, "carry")
  ELSE IF "SUPPORT" \in roleIds THEN Append(result, "hard-support")
  ELSE IF "NUKER" \in roleIds \/ "PUSHER" \in roleIds THEN Append(result, "mid")
  ELSE IF "INITIATOR" \in roleIds \/ "DURABLE" \in roleIds THEN Append(result, "offlane")
  ELSE result

\* [...new Set(result)] (line 126): the first occurrence of each element.
Deduplicated(result) ==
  LET First(i) == \A j \in 1..(i - 1) : result[j] # result[i]
      kept == {i \in 1..Len(result) : First(i)}
      Nth(n) == CHOOSE i \in kept : Cardinality({j \in kept : j < i}) = n - 1
  IN [n \in 1..Cardinality(kept) |-> result[Nth(n)]]

mapRoleIdToHeroRole(roleIds) ==
  Deduplicated(RolesFallback(roleIds, RolesBeforeFallback(roleIds)))

RoleCalls ==
  [fn : {"mapRoleIdToHeroRole"}, roleIds : SUBSET StratzRoles, done : {FALSE},
   beforeFallback : {<<>>}, result : {<<>>}]

CallMapRoleIdToHeroRole ==
  /\ call.fn = "mapRoleIdToHeroRole" /\ ~call.done
  /\ call' = [call EXCEPT !.done = TRUE,
                          !.beforeFallback = RolesBeforeFallback(call.roleIds),
                          !.result = mapRoleIdToHeroRole(call.roleIds)]
  /\ UNCHANGED <<component, panel, web>>

InitCalls ==
  /\ Detached
  /\ PanelInit
  /\ WebIdle
  /\ \/ call \in RandomIndexCalls
     \/ call \in EaseCalls
     \/ call \in ShuffleCalls
     \/ call \in RoleCalls

NextCalls ==
  \/ CallRandomIndex
  \/ CallMapProgressToDistance
  \/ CallShuffleList
  \/ CallMapRoleIdToHeroRole

SpecCalls == InitCalls /\ [][NextCalls]_vars


\* ------------------------------------------- items panel and the AI modal
\* The catalog the panel is exercised with: both teams can be filled.
PanelCatalog == [i \in 1..PanelHeroes |-> i]
\* The heroes a spin publishes while the panel is exercised.
Winners == 1..MaxWinners

\* Every variable of the roulette but selectedHero.
rouletteRest ==
  <<isSpinning, baseHeroesState, heroSlotWidth, selectedRoles, bannedHeroIds, heroes,
    isLoadingHeroes, animationFrameRef, isSpinningRef, heroSlotWidthRef, baseHeroesRef,
    virtualOffsetRef, transform, audioContextRef, buffersLoaded, mounted, now, frameQ,
    rafNext, resizeRaf, layoutWidth, calls, event, sounds, poolAtSpin, firstFrameAt,
    spinTrace>>

\* The mounted component with its catalog loaded and the strip at rest.
PanelMounted(catalog) ==
  /\ isSpinning = FALSE
  /\ selectedHero = None
  /\ baseHeroesState = catalog
  /\ heroSlotWidth = DEFAULT_HERO_SLOT_WIDTH
  /\ selectedRoles = {}
  /\ bannedHeroIds = {}
  /\ heroes = catalog
  /\ isLoadingHeroes = FALSE
  /\ animationFrameRef = 0
  /\ isSpinningRef = FALSE
  /\ heroSlotWidthRef = DEFAULT_HERO_SLOT_WIDTH
  /\ baseHeroesRef = catalog
  /\ virtualOffsetRef = initialOffset(Len(catalog), DEFAULT_HERO_SLOT_WIDTH)
  /\ transform = 0
  /\ audioContextRef = FALSE
  /\ buffersLoaded = FALSE
  /\ mounted = TRUE
  /\ now = 0
  /\ frameQ = <<>>
  /\ rafNext = <<>>
  /\ resizeRaf = 0
  /\ layoutWidth = DEFAULT_HERO_SLOT_WIDTH
  /\ calls = 0
  /\ event = [op |-> "none", winner |-> None]
  /\ sounds = <<>>
  /\ poolAtSpin = {}
  /\ firstFrameAt = -1
  /\ spinTrace = [offset |-> 0, ticks |-> 0, speedRatio |-> -1]
  /\ call = NoCall
  /\ PanelInit
  /\ WebIdle

Request(kind, hero) == [kind |-> kind, hero |-> hero]
Pending(kind) == {r \in BagToSet(requests) : r.kind = kind}

\* What the roulette does to the selection: the last frame of a spin
\* publishes its winner (line 678).  The effect of lines 346-352 runs after
\* the render and finds a hero selected.
WinnerPublished ==
  /\ selectedHero = None
  /\ \E h \in Winners : selectedHero' = h
  /\ UNCHANGED <<rouletteRest, call, web, panel>>

\* spinRoulette, resetRoulette and the filter effect clear the selection
\* (lines 607, 687, 249); the controls that call them lie under the modal's
\* overlay.  The effect of lines 346-352 then clears the panel.
SelectionCleared ==
  /\ selectedHero # None
  /\ ~isAIModalOpen
  /\ selectedHero' = None
  /\ heroItems' = None
  /\ showItems' = FALSE
  /\ aiRecommendations' = None
  /\ UNCHANGED <<rouletteRest, call, web, isLoadingItems, isAIModalOpen, myTeamHeroes,
                 enemyTeamHeroes, isLoadingAIRecommendations, requests>>

\* The "popular items" button of the result card (lines 907-917) calls
\* loadHeroItems (lines 319-343), which runs up to its await.
ViewItems ==
  /\ selectedHero # None /\ ~isSpinning
  /\ ~isLoadingItems
  /\ ~isAIModalOpen
  /\ BagCardinality(requests) < MaxRequests
  /\ isLoadingItems' = TRUE
  /\ showItems' = TRUE
  /\ requests' = requests (+) SetToBag({Request("items", selectedHero)})
  /\ UNCHANGED <<component, call, web, heroItems, isAIModalOpen, myTeamHeroes,
                 enemyTeamHeroes, aiRecommendations, isLoadingAIRecommendations>>

\* fetchHeroAllItems settles: loadHeroItems stores the items it got, or
\* empty lists (lines 326-341).
ItemsArrive ==
  /\ \E r \in Pending("items") :
       /\ heroItems' = r.hero
       /\ requests' = requests (-) SetToBag({r})
  /\ isLoadingItems' = FALSE
  /\ UNCHANGED <<component, call, web, showItems, isAIModalOpen, myTeamHeroes,
                 enemyTeamHeroes, aiRecommendations, isLoadingAIRecommendations>>

\* The items block is rendered with the button that opens the modal (lines
\* 921-946).
ItemsShown == selectedHero # None /\ showItems /\ ~isLoadingItems /\ heroItems # None

\* The button's onClick (lines 937-943).
OpenAIModal ==
  /\ selectedHero # None
  /\ myTeamHeroes' = <<selectedHero>>
  /\ enemyTeamHeroes' = <<>>
  /\ isAIModalOpen' = TRUE
  /\ UNCHANGED <<component, call, web, heroItems, isLoadingItems, showItems,
                 aiRecommendations, isLoadingAIRecommendations, requests>>

ClickOpenAIModal == ItemsShown /\ ~isAIModalOpen /\ OpenAIModal

\* The overlay and the close button (lines 1337-1349).
CloseAIModal ==
  /\ isAIModalOpen
  /\ isAIModalOpen' = FALSE
  /\ UNCHANGED <<component, call, web, heroItems, isLoadingItems, showItems, myTeamHeroes,
                 enemyTeamHeroes, aiRecommendations, isLoadingAIRecommendations,
                 requests>>

\* The size of a team (lines 183, 194).
TEAM_SIZE == 5

InTeam(team, id) == \E i \in 1..Len(team) : team[i] = id

addHeroOfOtherTeam(team, other, hero) ==
  IF Len(team) >= TEAM_SIZE THEN team
  ELSE IF InTeam(team, hero) THEN team
  ELSE Append(team, hero)

\* addHeroToMyTeam (lines 182-187) and addHeroToEnemyTeam (lines 193-198):
\* the list the handler leaves in `team`, `other` being the other team.
addHeroToTeam(team, other, hero) ==
  IF Len(team) >= TEAM_SIZE THEN team
  ELSE IF InTeam(team, hero) THEN team
  ELSE IF InTeam(other, hero) THEN team
  ELSE Append(team, hero)

\* removeHeroFromMyTeam (189-191) and removeHeroFromEnemyTeam (200-202).
removeHeroFromTeam(team, heroId) ==
  LET Kept(h) == h # heroId IN SelectSeq(team, Kept)

TeamFrame ==
  UNCHANGED <<component, call, web, heroItems, isLoadingItems, showItems, isAIModalOpen,
              aiRecommendations, isLoadingAIRecommendations, requests>>

AddHeroToMyTeam(hero) ==
  /\ myTeamHeroes' = addHeroToTeam(myTeamHeroes, enemyTeamHeroes, hero)
  /\ UNCHANGED enemyTeamHeroes
  /\ TeamFrame

AddHeroToEnemyTeam(hero) ==
  /\ enemyTeamHeroes' = addHeroToTeam(enemyTeamHeroes, myTeamHeroes, hero)
  /\ UNCHANGED myTeamHeroes
  /\ TeamFrame

RemoveHeroFromMyTeam(heroId) ==
  /\ myTeamHeroes' = removeHeroFromTeam(myTeamHeroes, heroId)
  /\ UNCHANGED enemyTeamHeroes
  /\ TeamFrame

RemoveHeroFromEnemyTeam(heroId) ==
  /\ enemyTeamHeroes' = removeHeroFromTeam(enemyTeamHeroes, heroId)
  /\ UNCHANGED myTeamHeroes
  /\ TeamFrame

\* The four handlers called with any hero of the catalog.
AddMine == \E h \in Range(heroes) : AddHeroToMyTeam(h)
AddEnemy == \E h \in Range(heroes) : AddHeroToEnemyTeam(h)
RemoveMine == \E h \in Range(heroes) : RemoveHeroFromMyTeam(h)
RemoveEnemy == \E h \in Range(heroes) : RemoveHeroFromEnemyTeam(h)

\* The catalog the team handlers are called with: one hero more than a team
\* holds.
TeamCatalog == [i \in 1..TeamHeroes |-> i]

InitTeams == PanelMounted(TeamCatalog)

NextTeams ==
  \/ WinnerPublished
  \/ SelectionCleared
  \/ OpenAIModal
  \/ CloseAIModal
  \/ AddMine
  \/ AddEnemy
  \/ RemoveMine
  \/ RemoveEnemy

SpecTeams == InitTeams /\ [][NextTeams]_vars

\* The heroes the modal's grids offer: those in neither team (the lists
\* filteredMyTeamHeroes and filteredEnemyTeamHeroes without a search text).
Pickable ==
  {h \in Range(heroes) : ~InTeam(myTeamHeroes, h) /\ ~InTeam(enemyTeamHeroes, h)}

\* The user fills the teams in catalog order, the own team first: the
\* grid's add button for the first hero offered, shown while the team has
\* room.
NextPick == CHOOSE h \in Pickable : \A g \in Pickable : h <= g

PickForMyTeam ==
  /\ isAIModalOpen
  /\ Len(myTeamHeroes) < TEAM_SIZE
  /\ Pickable # {}
  /\ AddHeroToMyTeam(NextPick)

PickForEnemyTeam ==
  /\ isAIModalOpen
  /\ Len(myTeamHeroes) = TEAM_SIZE
  /\ Len(enemyTeamHeroes) < TEAM_SIZE
  /\ Pickable # {}
  /\ AddHeroToEnemyTeam(NextPick)

\* The modal's footer button: its disabled attribute (line 1535) and its
\* onClick up to the await (lines 1473-1514).
RequestAIEnabled ==
  /\ isAIModalOpen
  /\ Len(myTeamHeroes) = TEAM_SIZE
  /\ Len(enemyTeamHeroes) = TEAM_SIZE
  /\ ~isLoadingAIRecommendations
  /\ heroItems # None

RequestAI ==
  /\ RequestAIEnabled
  /\ selectedHero # None /\ heroItems # None
  /\ BagCardinality(requests) < MaxRequests
  /\ isLoadingAIRecommendations' = TRUE
  /\ aiRecommendations' = None
  /\ requests' = requests (+) SetToBag({Request("ai", selectedHero)})
  /\ UNCHANGED <<component, call, web, heroItems, isLoadingItems, showItems, isAIModalOpen,
                 myTeamHeroes, enemyTeamHeroes>>

\* What the onClick stores when getAIRecommendations has settled for `hero`
\* (lines 1521-1523): `recommendations` is whether a response came, `shown`
\* the recommendations stored before.
aiArrives(recommendations, hero, selected, shown) ==
  IF recommendations THEN hero ELSE shown

\* getAIRecommendations settles (lines 1514-1532).
AIArrives ==
  /\ \E r \in Pending("ai"), recommendations \in BOOLEAN :
       /\ aiRecommendations' =
            aiArrives(recommendations, r.hero, selectedHero, aiRecommendations)
       /\ isAIModalOpen' = (IF recommendations THEN FALSE ELSE isAIModalOpen)
       /\ requests' = requests (-) SetToBag({r})
  /\ isLoadingAIRecommendations' = FALSE
  /\ UNCHANGED <<component, call, web, heroItems, isLoadingItems, showItems, myTeamHeroes,
                 enemyTeamHeroes>>

InitAI == PanelMounted(PanelCatalog)

NextAI ==
  \/ WinnerPublished
  \/ SelectionCleared
  \/ ViewItems
  \/ ItemsArrive
  \/ ClickOpenAIModal
  \/ CloseAIModal
  \/ PickForMyTeam
  \/ PickForEnemyTeam
  \/ RequestAI
  \/ AIArrives

SpecAI == InitAI /\ [][NextAI]_vars

\* --------------------------------------- the Stratz cache and loadHeroes
\* Times are whole hours here.  A list of heroes, items or statistics is the
\* list of its ids; a value that is no array keeps no elements.

\* HEROES_CACHE_TTL, ITEMS_CACHE_TTL, HERO_WIN_STATS_CACHE_TTL (lines 146,
\* 611, 304) and HERO_WIN_STATS_DATA_MAX_AGE (line 305).
CACHE_TTL(fn) == IF fn = "fetchAllHeroWinStats" THEN 6 ELSE 24
HERO_WIN_STATS_DATA_MAX_AGE == 30 * 24

\* The ids of the payload's items whose stat.isRecipe is set.
Recipes == {3}

\* The lists a valid response carries.
Payloads == {<<>>, <<2, 1>>, <<1, 2, 3>>}
\* What happens to a request: fetch rejects, response.json() throws, the
\* status is not OK, the body has errors, the body lacks the field, the
\* field holds a truthy value that is no array, the field holds a list.
Failures == {"rejected", "unparsable", "notOk", "errors", "missing"}
Outcomes == Failures \cup {"notArray", "valid"}

\* The entries a former session may have left, seen at time Epoch.
OldEntries(fn) ==
  {NoEntry, Corrupt}
  \cup {Entry(a, IF a THEN <<1, 2>> ELSE <<>>, Epoch - age, d) :
          a \in BOOLEAN, age \in {CACHE_TTL(fn) - 1, CACHE_TTL(fn)},
          d \in IF fn = "fetchAllHeroWinStats"
                THEN {0, Epoch - HERO_WIN_STATS_DATA_MAX_AGE,
                      Epoch - HERO_WIN_STATS_DATA_MAX_AGE + 1}
                ELSE {0}}

cacheFreshAtTTL(fn, e, t) ==
  LET cacheAge == t - e.timestamp
      dataAge == IF e.dataTimestamp # 0 THEN t - e.dataTimestamp ELSE cacheAge
  IN /\ e.present /\ e.parsable
     /\ cacheAge <= CACHE_TTL(fn)
     /\ (fn = "fetchAllHeroWinStats" => dataAge < HERO_WIN_STATS_DATA_MAX_AGE)
     /\ e.isArray

\* The test of lines 177-181, 630-638 and 484-491 on the entry e at time t.
cacheFresh(fn, e, t) ==
  LET cacheAge == t - e.timestamp
      dataAge == IF e.dataTimestamp # 0 THEN t - e.dataTimestamp ELSE cacheAge
  IN /\ e.present /\ e.parsable
     /\ cacheAge < CACHE_TTL(fn)
     /\ (fn = "fetchAllHeroWinStats" => dataAge < HERO_WIN_STATS_DATA_MAX_AGE)
     /\ e.isArray

\* localStorage.setItem inside its try block (lines 254-262, 567-577,
\* 728-736): a full storage throws and the entry stays.
setItem(e, new, full) == IF full THEN e ELSE new

\* The second try block once fetch has settled (lines 208-273, 525-587,
\* 668-750): what the call returns, the entry it leaves, and whether it
\* throws.  An exception inside the block is caught by its catch.
handleResponse(fn, outcome, payload, e, t, full) ==
  IF outcome \in Failures
  THEN [value |-> Null, entry |-> e, threw |-> FALSE]
  ELSE IF outcome = "valid"
  THEN LET data == IF fn = "fetchItems" THEN Filter(payload, Range(payload) \ Recipes)
                   ELSE payload
           stamp == IF fn = "fetchAllHeroWinStats" THEN t ELSE 0
       IN [value |-> Value(TRUE, data),
           entry |-> setItem(e, Entry(TRUE, data, t, stamp), full), threw |-> FALSE]
  \* a truthy value that is no array: fetchHeroes stores and returns it;
  \* items.filter and winMonth.forEach throw
  ELSE IF fn = "fetchHeroes"
  THEN [value |-> Value(FALSE, <<>>),
        entry |-> setItem(e, Entry(FALSE, <<>>, t, 0), full), threw |-> FALSE]
  ELSE [value |-> Null, entry |-> e, threw |-> FALSE]

RECURSIVE SortById(_)
\* Array.prototype.sort((a, b) => a.id - b.id).
SortById(s) ==
  IF s = <<>> THEN <<>>
  ELSE LET least == CHOOSE i \in 1..Len(s) : \A j \in 1..Len(s) : s[i] <= s[j]
       IN <<s[least]>> \o SortById([k \in 1..(Len(s) - 1) |->
                                      IF k < least THEN s[k] ELSE s[k + 1]])

afterFetch(v, hc, sc) ==
  IF v.isNull \/ (v.isArray /\ Len(v.data) = 0) \/ ~v.isArray
  THEN [value |-> Null, heroesCache |-> hc, stratzHeroesCache |-> sc]
  ELSE [value |-> Value(TRUE, SortById(v.data)),
        heroesCache |-> Loaded(SortById(v.data)),
        stratzHeroesCache |-> Loaded(SortById(v.data))]

KeyOf(fn) == IF fn = "loadHeroes" THEN "fetchHeroes" ELSE fn

\* A call that waits for its response: the operation, its caller, the lists
\* loadHeroes had returned when it began.
Waiting(fn, caller, before) == [fn |-> fn, caller |-> caller, listsBefore |-> before]

\* The calls settle as in the browser: one continuation at a time.
Complete(fn, caller, served, requested, outcome, fetched, before) ==
  LET r == IF caller = "loadHeroes"
           THEN afterFetch(fetched.value, heroesCache, stratzHeroesCache)
           ELSE [value |-> fetched.value, heroesCache |-> heroesCache,
                 stratzHeroesCache |-> stratzHeroesCache]
  IN /\ localStorage' = [localStorage EXCEPT ![fn] = fetched.entry]
     /\ heroesCache' = r.heroesCache
     /\ stratzHeroesCache' = r.stratzHeroesCache
     /\ returned' = [fn |-> fn, caller |-> caller, served |-> served,
                     requested |-> requested, outcome |-> outcome,
                     fetched |-> fetched.value, value |-> r.value,
                     threw |-> fetched.threw, at |-> clock, listsBefore |-> before]
     /\ returnedLists' = IF caller = "loadHeroes" /\ ~r.value.isNull
                         THEN returnedLists \cup {r.value.data} ELSE returnedLists
     /\ completed' = completed + 1

\* A fetch operation up to its await (lines 172-215, 475-532, 626-675): it
\* serves the entry, returns null without a key, or sends the request.
Begin(fn, caller) ==
  LET e == localStorage[fn]
  IN IF cacheFresh(fn, e, clock)
     THEN /\ Complete(fn, caller, TRUE, FALSE, "cached",
                      [value |-> Value(TRUE, e.data), entry |-> e, threw |-> FALSE],
                      returnedLists)
          /\ UNCHANGED <<inflight, requestsSent>>
     ELSE IF ~apiKey
     THEN /\ Complete(fn, caller, FALSE, FALSE, "noKey",
                      [value |-> Null, entry |-> e, threw |-> FALSE], returnedLists)
          /\ UNCHANGED <<inflight, requestsSent>>
     ELSE /\ Len(inflight) < MaxInflight
          /\ inflight' = Append(inflight, Waiting(fn, caller, returnedLists))
          /\ requestsSent' = requestsSent + 1
          /\ UNCHANGED <<localStorage, heroesCache, stratzHeroesCache, returned,
                         returnedLists, completed>>

Elsewhere == UNCHANGED <<component, call, panel>>

BeginFetch ==
  /\ subject \in FetchOperations
  /\ begun < MaxFetchCalls
  /\ begun' = begun + 1
  /\ Begin(subject, "direct")
  /\ UNCHANGED <<subject, apiKey, storageFull, clock, apiCalls>>
  /\ Elsewhere

\* loadHeroes up to its await (lines 13-20 of data/heroes).
BeginLoadHeroes ==
  /\ subject = "loadHeroes"
  /\ begun < MaxFetchCalls
  /\ begun' = begun + 1
  /\ IF heroesCache.loaded
     THEN /\ returned' = [NothingReturned EXCEPT
                            !.caller = "loadHeroes",
                            !.outcome = "loaded",
                            !.value = Value(TRUE, heroesCache.list), !.at = clock,
                            !.listsBefore = returnedLists]
          /\ returnedLists' = returnedLists \cup {heroesCache.list}
          /\ completed' = completed + 1
          /\ UNCHANGED <<localStorage, heroesCache, stratzHeroesCache, inflight,
                         requestsSent, apiCalls>>
     ELSE /\ apiCalls' = apiCalls + 1
          /\ Begin("fetchHeroes", "loadHeroes")
  /\ UNCHANGED <<subject, apiKey, storageFull, clock>>
  /\ Elsewhere

\* The request of a waiting call settles and the call runs to its end.
Settle ==
  /\ \E i \in 1..Len(inflight), outcome \in Outcomes, payload \in Payloads :
       LET c == inflight[i]
       IN /\ outcome # "valid" => payload = <<>>
          /\ Complete(c.fn, c.caller, FALSE, TRUE, outcome,
                      handleResponse(c.fn, outcome, payload, localStorage[c.fn], clock,
                                     storageFull),
                      c.listsBefore)
          /\ inflight' = [k \in 1..(Len(inflight) - 1) |->
                            IF k < i THEN inflight[k] ELSE inflight[k + 1]]
  /\ UNCHANGED <<subject, apiKey, storageFull, clock, begun, requestsSent, apiCalls>>
  /\ Elsewhere

\* Date.now() moves on.
TimePasses ==
  /\ \E d \in ClockSteps :
       /\ clock + d <= Epoch + MaxHours
       /\ clock' = clock + d
  /\ UNCHANGED <<subject, localStorage, apiKey, storageFull, heroesCache,
                 stratzHeroesCache, inflight, begun, completed, requestsSent, apiCalls,
                 returned, returnedLists>>
  /\ Elsewhere

InitFetch ==
  /\ Detached
  /\ call = NoCall
  /\ PanelInit
  /\ subject \in FetchOperations \cup {"loadHeroes"}
  /\ \E e \in OldEntries(KeyOf(subject)) :
       localStorage = [fn \in FetchOperations |-> IF fn = KeyOf(subject) THEN e ELSE NoEntry]
  /\ apiKey \in BOOLEAN
  /\ storageFull \in BOOLEAN
  /\ clock = Epoch
  /\ heroesCache = NotLoaded
  /\ stratzHeroesCache = NotLoaded
  /\ inflight = <<>>
  /\ begun = 0
  /\ completed = 0
  /\ requestsSent = 0
  /\ apiCalls = 0
  /\ returned = NothingReturned
  /\ returnedLists = {}

NextFetch ==
  \/ BeginFetch
  \/ BeginLoadHeroes
  \/ Settle
  \/ TimePasses

SpecFetch == InitFetch /\ [][NextFetch]_vars


\* ------------------------------------------------------------- properties
Steps(q) == Cardinality({i \in 1..Len(q) : q[i].kind = "step"})
\* The number of step callbacks that wait for a frame.
StepsPending == Steps(frameQ) + Steps(rafNext)

\* This step is a call of spinRoulette.
SpinCalled ==
  calls' = calls + 1 /\ event'.op \in {"spin", "spin-ignored", "spin-empty"}
\* This step is a run of the step callback at the head of the frame.
StepRuns == frameQ # <<>> /\ Head(frameQ).kind = "step" /\ frameQ' = Tail(frameQ)
\* ... and it is the frame that ends the spin.
Completes == StepRuns /\ isSpinningRef /\ ~isSpinningRef'
\* The variables of the spin whose step runs.
Running == Head(frameQ).c

\* C1: a spinRoulette call made while a spin is in progress changes nothing:
\* base list, winner, phase, offsets, slot width and the pending callbacks
\* stay as they are, no sound is played, and the one step callback of the
\* running spin is still the only one pending.
C1_SpinWhileSpinningIsNoOp ==
  [][(SpinCalled /\ isSpinningRef) =>
       /\ UNCHANGED <<isSpinning, isSpinningRef, selectedHero, baseHeroesRef,
                      baseHeroesState, animationFrameRef, frameQ, rafNext,
                      virtualOffsetRef, transform, heroSlotWidthRef, heroSlotWidth,
                      poolAtSpin, firstFrameAt>>
       /\ sounds' = <<>>
       /\ event'.winner = None
       /\ StepsPending' = 1]_vars

C1_Witness ==
  /\ event.op = "spin-ignored"
  /\ isSpinningRef
  /\ StepsPending = 1
  /\ selectedHero = None

\* C2: a step callback ends the spin and publishes the winner exactly when
\* its timestamp is at least the spin duration after the timestamp of the
\* spin's first step callback, so the spin ends in the first such frame.
C2_CompletesAtDuration ==
  [][StepRuns =>
       LET first == IF firstFrameAt = -1 THEN now ELSE firstFrameAt
       IN (~isSpinningRef' /\ event'.winner # None)
            <=> (now - first >= spinDuration(Running.extraLoops))]_vars

\* C3: the working list of an accepted spin is the list committed as the base
\* list; the winner a completing frame publishes is the element at
\* randomIndex of that working list and a hero of the base list that
\* spinRoulette found when it was called.  The published winner stays the
\* selected hero unless it is banned.
C3_WinnerFromWorkingList ==
  [][/\ (SpinCalled /\ ~isSpinningRef /\ isSpinningRef') =>
          /\ rafNext' # <<>>
          /\ rafNext'[Len(rafNext')].kind = "step"
          /\ rafNext'[Len(rafNext')].c.shuffledHeroes = baseHeroesRef'
          /\ baseHeroesState' = baseHeroesRef'
          /\ Range(baseHeroesRef') = Range(baseHeroesRef)
     /\ Completes =>
          /\ event'.winner = Running.shuffledHeroes[Running.randomIndex + 1]
          /\ event'.winner \in poolAtSpin
          /\ selectedHero' = IF event'.winner \in bannedHeroIds THEN None
                             ELSE event'.winner]_vars

C3_Witness ==
  /\ event.op = "complete"
  /\ event.winner # None
  /\ event.winner \in poolAtSpin
  /\ selectedHero = event.winner
  /\ ~isSpinningRef

\* C4: while a spin is in progress no hero is selected.
C4_SpinningHasNoWinner ==
  (isSpinningRef \/ isSpinning) => selectedHero = None

\* A spin accepted after an earlier spin has run its frames.
C4_Witness ==
  /\ event.op = "spin"
  /\ isSpinningRef /\ isSpinning
  /\ now > 0
  /\ selectedHero = None

\* C5: when a spin completes, the base list the strip is rendered from and
\* the base list the offset is normalized against are the working list the
\* winner was drawn from.
C5_StripShowsWorkingList ==
  [][Completes =>
       /\ baseHeroesState' = Running.shuffledHeroes
       /\ baseHeroesRef' = Running.shuffledHeroes]_vars

\* C6: when a spin completes after the slot width was re-measured to another
\* value, the transform left on the strip is the normalization of
\* -(targetIndex * slotWidth) for one slot width.
C6_LandsOnWinnerAfterRemeasure ==
  [][(Completes /\ heroSlotWidthRef' # Running.slotWidth) =>
       \E w \in LayoutWidths :
         transform' = VisualOffset(-(TargetIndex(Running) * w), w, Len(baseHeroesRef'))]_vars

\* C7: at most one step callback is pending; it is the one animationFrameRef
\* names; none is pending while no spin is in progress, in particular after
\* the completing frame.
C7_OneFrameLoop ==
  /\ StepsPending <= 1
  /\ ~isSpinningRef => (StepsPending = 0 /\ animationFrameRef = 0)
  /\ \A i \in 1..Len(rafNext) :
       rafNext[i].kind = "step" => rafNext[i].id = animationFrameRef
  /\ \A i \in 1..Len(frameQ) :
       frameQ[i].kind = "step" => frameQ[i].id = animationFrameRef

\* A frame of a spin has run and has requested the next one.
C7_Witness ==
  /\ event.op = "step"
  /\ isSpinningRef
  /\ Steps(rafNext) = 1
  /\ animationFrameRef # 0

\* C8: once the component is unmounted no step callback is pending, and no
\* later step runs, plays a sound or publishes a winner.
C8_TeardownCancelsSpin ==
  ~mounted =>
    /\ StepsPending = 0
    /\ sounds = <<>>
    /\ event.op \notin {"step", "complete"}
    /\ event.winner = None

\* The component was unmounted while a spin was in progress.
C8_Witness ==
  /\ ~mounted
  /\ isSpinningRef
  /\ animationFrameRef # 0
  /\ StepsPending = 0

\* C9: a spinRoulette call that finds no hero to spin over leaves the phase
\* idle and the winner none and requests no frame callback.
C9_EmptyListNoOp ==
  [][(SpinCalled /\ ~isSpinningRef /\ Len(Available(Cur)) = 0) =>
       /\ ~isSpinningRef' /\ ~isSpinning'
       /\ selectedHero' = None /\ event'.winner = None
       /\ animationFrameRef' = 0
       /\ StepsPending' = 0
       /\ rafNext' = rafNext /\ frameQ' = frameQ]_vars

C9_Witness ==
  /\ event.op = "spin-empty"
  /\ heroes = <<>>
  /\ ~isLoadingHeroes
  /\ ~isSpinningRef /\ ~isSpinning
  /\ selectedHero = None

\* C10: a spinRoulette call made while the catalog has heroes and the role
\* filter and the bans exclude all of them leaves the phase idle and requests
\* no step callback.
C10_AllExcludedNoOp ==
  [][(SpinCalled /\ ~isSpinningRef /\ heroes # <<>> /\ ActiveCount(Cur) = 0) =>
       /\ ~isSpinningRef' /\ ~isSpinning'
       /\ StepsPending' = 0
       /\ animationFrameRef' = 0]_vars

\* This step is a call of resetRoulette.
ResetCalled == calls' = calls + 1 /\ event'.op = "reset"
\* The controller is idle and shows no winner.
IdleNoWinner == ~isSpinningRef /\ ~isSpinning /\ selectedHero = None

\* C11: a resetRoulette call, made while idle or while a spin is in progress,
\* leaves the phase idle, the winner none and the raw offset at the centred
\* resting position; and an idle controller without a winner stays so until
\* a spinRoulette call is accepted.
C11_ResetLeavesIdle ==
  [][/\ ResetCalled =>
          /\ IdleNoWinner'
          /\ virtualOffsetRef' = InitialOffsetOf(Cur)
     /\ (IdleNoWinner /\ event'.op # "spin") => IdleNoWinner']_vars

\* C12: a resetRoulette call made after a spin has completed with a winner
\* clears the winner and applies the raw offset
\* -(middleRepeatIndex * poolSize * slotWidth), poolSize being the length of
\* the re-shuffled list the strip is rendered from, so that the strip rests
\* on slot 0 of the middle repetition.
C12_ResetCentresOnPool ==
  [][(ResetCalled /\ ~isSpinningRef /\ selectedHero # None) =>
       /\ selectedHero' = None
       /\ virtualOffsetRef' =
            -(middleRepeatIndex * Len(baseHeroesState') * heroSlotWidthRef')
       /\ transform' = -(middleRepeatIndex * Len(baseHeroesState') * heroSlotWidthRef')]_vars

\* C13: when a spin completes, the last raw offset applied is exactly
\* -(targetIndex * slotWidth) with targetIndex = middleRepeatIndex * poolSize
\* + extraLoops * poolSize + randomIndex, for the pool size, the extra loops,
\* the index and the slot width of that spin.
C13_EndsOnFinalOffset ==
  [][Completes =>
       LET poolSize == Len(Running.shuffledHeroes)
           targetIndex == middleRepeatIndex * poolSize + Running.extraLoops * poolSize
                            + Running.randomIndex
       IN virtualOffsetRef' = -(targetIndex * Running.slotWidth)]_vars

\* A spin has ended on a slot that is not the first of its repetition.
C13_Witness ==
  /\ event.op = "complete"
  /\ event.winner # None
  /\ baseHeroesRef # <<>>
  /\ \E extraLoops \in 2..5 : \E randomIndex \in 1..(Len(baseHeroesRef) - 1) :
       virtualOffsetRef =
         -(((middleRepeatIndex + extraLoops) * Len(baseHeroesRef) + randomIndex)
             * heroSlotWidthRef)

\* C14: the raw offset a frame of a spin applies lies between the spin's
\* finalOffset and its startOffset, and is not greater than the raw offset of
\* the spin's frame before (of the spin's start, for the first frame); and
\* every raw offset applied, by spinRoulette, by a frame or by resetRoulette,
\* is at most 0.
C14_OffsetNeverOvershoots ==
  [][/\ StepRuns =>
          /\ -(TargetIndex(Running) * Running.slotWidth) <= spinTrace'.offset
          /\ spinTrace'.offset
               <= -(middleRepeatIndex * Len(Running.shuffledHeroes) * Running.slotWidth)
          /\ spinTrace'.offset <= spinTrace.offset
          /\ spinTrace'.offset <= 0
     /\ virtualOffsetRef' <= 0]_vars

\* A frame has moved the strip to a place between start and target.
C14_Witness ==
  /\ event.op = "step"
  /\ \E i \in 1..Len(rafNext) :
       /\ rafNext[i].kind = "step"
       /\ FinalOffset(rafNext[i].c) < spinTrace.offset
       /\ spinTrace.offset < StartOffset(rafNext[i].c)
       /\ virtualOffsetRef = spinTrace.offset

\* C15: when a spin completes, it has called playTickSound at least
\* extraLoops * poolSize times.
C15_TicksEverySlot ==
  [][Completes =>
       spinTrace'.ticks >= Running.extraLoops * Len(Running.shuffledHeroes)]_vars

\* This step is a frame of a spin that calls playTickSound.
Ticks == StepRuns /\ spinTrace'.ticks = spinTrace.ticks + 1

\* C16: the speedRatio of every playTickSound call of a spin is at least 0.05
\* and at most 1, and not greater than the speedRatio of the spin's call
\* before.
C16_TickSpeedDecays ==
  [][Ticks =>
       /\ Scale \div 20 <= spinTrace'.speedRatio
       /\ spinTrace'.speedRatio <= Scale
       /\ spinTrace.ticks > 0 => spinTrace'.speedRatio <= spinTrace.speedRatio
       /\ \A i \in 1..Len(sounds') :
            sounds'[i].kind = "tick" => sounds'[i].speedRatio = spinTrace'.speedRatio]_vars

\* A spin has ticked twice, the second time with a lower speed ratio, and the
\* tick was played.
C16_Witness ==
  /\ spinTrace.ticks >= 2
  /\ spinTrace.speedRatio < Scale
  /\ spinTrace.speedRatio >= Scale \div 20
  /\ \E i \in 1..Len(sounds) :
       sounds[i].kind = "tick" /\ sounds[i].speedRatio = spinTrace.speedRatio

\* C17: for every raw offset, negative or not, and a positive slot width and
\* base length, offsetWithinLoop lies in [0, loopWidth) and the transform lies
\* in [-middleRepeatIndex * loopWidth, -(middleRepeatIndex - 1) * loopWidth).
C17_VisualOffsetInMiddle ==
  (heroSlotWidthRef > 0 /\ Len(baseHeroesRef) > 0) =>
    /\ 0 <= OffsetWithinLoop(virtualOffsetRef, LoopWidth)
    /\ OffsetWithinLoop(virtualOffsetRef, LoopWidth) < LoopWidth
    /\ transform = OffsetWithinLoop(virtualOffsetRef, LoopWidth)
                     - middleRepeatIndex * LoopWidth
    /\ -(middleRepeatIndex * LoopWidth) <= transform
    /\ transform < -((middleRepeatIndex - 1) * LoopWidth)

\* A negative raw offset more than a loop beyond the middle repetition, not
\* on a loop boundary, has been applied.
C17_Witness ==
  /\ event.op = "pixel"
  /\ LoopWidth > 1
  /\ virtualOffsetRef < -((middleRepeatIndex + 1) * LoopWidth)
  /\ virtualOffsetRef % LoopWidth # 0
  /\ transform # virtualOffsetRef

\* C18: with slot width and base length fixed, raw offsets that differ by a
\* whole number of loop widths get the same transform, and the same raw
\* offset applied again gets the same transform.
C18_VisualOffsetPeriodic ==
  [][(/\ heroSlotWidthRef' = heroSlotWidthRef /\ baseHeroesRef' = baseHeroesRef
      /\ LoopWidth > 0
      /\ (virtualOffsetRef' - virtualOffsetRef) % LoopWidth = 0)
       => transform' = transform]_vars

\* A raw offset a whole loop away from the one before has been applied, on
\* the other side of 0.
C18_Witness ==
  /\ event.op = "loop"
  /\ LoopWidth > 1
  /\ virtualOffsetRef > 0
  /\ virtualOffsetRef < LoopWidth
  /\ transform = virtualOffsetRef - middleRepeatIndex * LoopWidth

\* The step callbacks that wait for a frame.
PendingSteps ==
  {frameQ[i] : i \in {j \in 1..Len(frameQ) : frameQ[j].kind = "step"}}
    \cup {rafNext[i] : i \in {j \in 1..Len(rafNext) : rafNext[j].kind = "step"}}

\* C19: the targetIndex of every spin in progress, computed for its pool
\* size, its extraLoops in 2..5 and its randomIndex in [0, poolSize), is an
\* index of the looped strip: 0 <= targetIndex < REPEAT_COUNT * poolSize.
C19_TargetIndexInStrip ==
  \A cb \in PendingSteps :
    /\ Len(cb.c.shuffledHeroes) >= 1
    /\ cb.c.extraLoops \in 2..5
    /\ cb.c.randomIndex \in 0..(Len(cb.c.shuffledHeroes) - 1)
    /\ 0 <= TargetIndex(cb.c)
    /\ TargetIndex(cb.c) < REPEAT_COUNT * Len(cb.c.shuffledHeroes)

\* C19 as amended: the targetIndex of every spin in progress is at least
\* (middleRepeatIndex + 2) * poolSize and less than
\* (middleRepeatIndex + 6) * poolSize, it is congruent to randomIndex modulo
\* poolSize, and it is an index of the looped strip exactly when extraLoops
\* is 2.
C19_TargetIndexWraps ==
  \A cb \in PendingSteps :
    LET poolSize == Len(cb.c.shuffledHeroes)
        targetIndex == TargetIndex(cb.c)
    IN /\ poolSize >= 1
       /\ cb.c.extraLoops \in 2..5
       /\ cb.c.randomIndex \in 0..(poolSize - 1)
       /\ (middleRepeatIndex + 2) * poolSize <= targetIndex
       /\ targetIndex < (middleRepeatIndex + 6) * poolSize
       /\ targetIndex % poolSize = cb.c.randomIndex
       /\ (targetIndex < REPEAT_COUNT * poolSize) <=> (cb.c.extraLoops = 2)

\* A spin of five extra loops whose targetIndex lies beyond the looped strip.
C19_Witness ==
  \E cb \in PendingSteps :
    /\ cb.c.extraLoops = 5
    /\ cb.c.randomIndex > 0
    /\ TargetIndex(cb.c) >= REPEAT_COUNT * Len(cb.c.shuffledHeroes)
    /\ Len(loopedHeroes) = REPEAT_COUNT * Len(cb.c.shuffledHeroes)

\* C20: the looped strip is the current base list REPEAT_COUNT times over
\* (REPEAT_COUNT is 6, at least 4): its length is REPEAT_COUNT * poolSize, its
\* element i (counted from 0) is pool[i mod poolSize], and it is empty when
\* the pool is empty.
C20_LoopedStripRepeatsPool ==
  LET pool == baseHeroesRef
      poolSize == Len(pool)
  IN /\ baseHeroesState = pool
     /\ REPEAT_COUNT = 6 /\ REPEAT_COUNT >= 4
     /\ Len(loopedHeroes) = REPEAT_COUNT * poolSize
     /\ \A i \in 0..(Len(loopedHeroes) - 1) : loopedHeroes[i + 1] = pool[(i % poolSize) + 1]
     /\ poolSize = 0 => loopedHeroes = <<>>

\* A spin has put a list of two heroes, not in catalog order, on the strip.
C20_Witness ==
  /\ event.op = "spin"
  /\ Len(baseHeroesState) = 2
  /\ baseHeroesState # heroes
  /\ Len(loopedHeroes) = 2 * REPEAT_COUNT
  /\ loopedHeroes[Len(loopedHeroes)] = baseHeroesState[2]

RandomIndexCalled == call.fn = "randomIndex" /\ call.done

RerollTaken == call.availableCount > 1 /\ call.r0 = 0 /\ call.reroll

\* C21: the winning index of a spin lies in [0, poolSize); it differs from
\* the first draw only when poolSize > 1 and the first draw was 0, and a
\* re-roll yields an index in [1, poolSize); a pool of one hero always
\* selects index 0; every index of the pool is the outcome of some draws.
C21_WinningIndexInPool ==
  RandomIndexCalled =>
    LET n == call.availableCount
    IN /\ call.result \in 0..(n - 1)
       /\ call.result # call.r0 => (n > 1 /\ call.r0 = 0)
       /\ RerollTaken => call.result \in 1..(n - 1)
       /\ ~RerollTaken => call.result = call.r0
       /\ n = 1 => call.result = 0
       /\ \A i \in 0..(n - 1) :
            \E c \in RandomIndexCalls :
              /\ c.availableCount = n
              /\ PickIndex(n, c.r0, c.reroll, c.r1) = i

\* A re-roll has selected the last hero of a pool of three or more.
C21_Witness ==
  /\ RandomIndexCalled
  /\ RerollTaken
  /\ call.availableCount > 2
  /\ call.result = call.availableCount - 1

\* The layout's width is one that measureHeroSlotWidth ignores.
MeasurementIgnored ==
  \/ Len(baseHeroesState) = 0
  \/ layoutWidth = 0
  \/ layoutWidth < 0
  \/ ~NumberIsFinite(layoutWidth)
  \/ /\ 2 * (layoutWidth - heroSlotWidthRef) <= 1
     /\ 2 * (heroSlotWidthRef - layoutWidth) <= 1

\* C22: the slot width the controller uses is the default 168 at first and
\* always a finite number greater than 0; a measurement leaves it unchanged
\* when no slot is rendered, when the measured width is zero, negative or
\* not finite, or when it is within 0.5 of the current width.
C22_SlotWidthPositive ==
  /\ heroSlotWidthRef = DEFAULT_HERO_SLOT_WIDTH
  /\ heroSlotWidth = DEFAULT_HERO_SLOT_WIDTH
  /\ [][/\ heroSlotWidthRef' > 0 /\ NumberIsFinite(heroSlotWidthRef')
        /\ heroSlotWidth' > 0 /\ NumberIsFinite(heroSlotWidth')
        /\ (event'.op = "measure" /\ MeasurementIgnored)
             => UNCHANGED <<heroSlotWidthRef, heroSlotWidth>>]_vars

\* A measurement of a width below zero was ignored after another width was
\* taken.
C22_Witness ==
  /\ event.op = "measure"
  /\ Len(baseHeroesState) > 0
  /\ layoutWidth < 0
  /\ heroSlotWidthRef = 200

\* The audio context exists and both sounds are decoded.
Audible == audioContextRef /\ buffersLoaded
\* State s with the audio loaded.
WithAudio(s) == [s EXCEPT !.audioContextRef = TRUE, !.buffersLoaded = TRUE]

\* C23: without an audio context or without the decoded sounds no handler
\* plays a sound, and a frame of a spin leaves the component exactly as the
\* same frame would with the audio loaded, up to the sounds played: the same
\* offsets, the same pending callbacks, the same phase and the same winner.
C23_SilentSpinSameFrames ==
  [][/\ ~Audible' => sounds' = <<>>
     /\ (StepRuns /\ ~Audible) =>
          LET loud == AfterRender(WithAudio(Cur), step(WithAudio(Popped), Running, now),
                                  FALSE, FALSE, <<>>, layoutWidth)
          IN /\ Cur' = [loud EXCEPT !.audioContextRef = audioContextRef,
                                    !.buffersLoaded = buffersLoaded,
                                    !.sounds = <<>>, !.op = "", !.winner = None]
             /\ event' = [op |-> loud.op, winner |-> loud.winner]
             /\ Completes => loud.sounds # <<>>]_vars

\* A spin has completed and published its winner although the sounds never
\* loaded.
C23_Witness ==
  /\ event.op = "complete"
  /\ event.winner # None
  /\ audioContextRef /\ ~buffersLoaded
  /\ ~isSpinning /\ ~isSpinningRef
  /\ sounds = <<>>

\* A spin in progress took its first frame so late that it ends after the
\* last timestamp of the model.
OutlastsClock ==
  \E f \in PendingSteps :
    /\ f.c.animationStart # 0
    /\ f.c.animationStart + spinDuration(f.c.extraLoops) > MaxTime

SpinDone ==
  /\ event.op = "complete"
  /\ event.winner # None
  /\ ~isSpinning /\ ~isSpinningRef

\* C24: while frames keep being delivered with advancing timestamps and the
\* component stays mounted, every accepted spin is followed by a state in
\* which the component is idle again and a winner has been published.
C24_SpinTerminates ==
  (event.op = "spin") ~> (SpinDone \/ ~mounted \/ OutlastsClock)

\* A spin of the longest duration has completed.
C24_Witness ==
  /\ SpinDone
  /\ mounted
  /\ now - firstFrameAt >= LongestSpin

\* The kinds of the sounds a handler played, in the order of playing.
Kinds(played) == [i \in 1..Len(played) |-> played[i].kind]

\* C25: the frame that completes a spin plays the finish sound once, as the
\* last sound of the frame, after the tick the frame may have fired; no
\* other handler plays a finish sound, ticks are fired by frames of a spin
\* only, and no frame of the spin is pending after the one that completed it.
C25_FinishSoundOnceAndLast ==
  [][/\ (event'.op = "complete" /\ Audible)
          => Kinds(sounds') \in {<<"finish">>, <<"tick", "finish">>}
     /\ event'.op = "complete" => (StepRuns /\ StepsPending' = 0)
     /\ event'.op # "complete" => "finish" \notin Range(Kinds(sounds'))
     /\ "tick" \in Range(Kinds(sounds')) => StepRuns]_vars

\* The completing frame crossed a slot: it fired a tick and then the finish
\* sound.
C25_Witness ==
  /\ event.op = "complete"
  /\ Kinds(sounds) = <<"tick", "finish">>
  /\ StepsPending = 0

EaseCalled == call.fn = "mapProgressToDistance" /\ call.done

\* C26: mapProgressToDistance maps a progress in [0, 1] into [0, 1], never
\* decreases when the progress grows, yields 0 at 0 and 1 at 1, has the same
\* value on both branches at 0.5, and yields 0 below 0 and 1 above 1.
C26_EasingMonotoneUnit ==
  EaseCalled =>
    LET d == ProgressSteps
        k == call.progress
    IN /\ (0 <= k /\ k <= d) => (0 <= call.result /\ call.result <= EaseUnit(d))
       /\ \A j \in ProgressGrid :
            j >= k => call.result <= mapProgressToDistanceExact(j, d)
       /\ k = 0 => call.result = 0
       /\ k = d => call.result = EaseUnit(d)
       /\ 2 * k = d => /\ EaseLowerHalf(k, d) = EaseUpperHalf(k, d)
                       /\ call.result = EaseUpperHalf(k, d)
       /\ k < 0 => call.result = 0
       /\ k > d => call.result = EaseUnit(d)

\* A progress in the upper half short of 1 has a value between 1/2 and 1.
C26_Witness ==
  /\ EaseCalled
  /\ 2 * call.progress > ProgressSteps /\ call.progress < ProgressSteps
  /\ 2 * call.result > EaseUnit(ProgressSteps)
  /\ call.result < EaseUnit(ProgressSteps)

\* C27: with a slot width of zero or an empty base list applyVisualOffset
\* writes the raw offset itself as the transform; the loop width of zero is
\* neither a modulus nor a divisor, and the call completes.
C27_ZeroLoopKeepsRawOffset ==
  (mounted /\ (heroSlotWidthRef = 0 \/ Len(baseHeroesRef) = 0))
    => transform = virtualOffsetRef

\* applyVisualOffset has moved a strip of slot width zero off its centre.
C27_Witness ==
  /\ event.op = "pixel"
  /\ heroSlotWidthRef = 0 /\ Len(baseHeroesRef) > 0
  /\ virtualOffsetRef # 0
  /\ transform = virtualOffsetRef

ShuffleCalled == call.fn = "shuffleList" /\ call.done

Occurrences(list, x) == Cardinality({i \in 1..Len(list) : list[i] = x})
IsPermutation(a, b) ==
  /\ Len(a) = Len(b)
  /\ \A x \in Range(a) \cup Range(b) : Occurrences(a, x) = Occurrences(b, x)
PermutationsOf(list) == {p \in [1..Len(list) -> Range(list)] : IsPermutation(p, list)}

\* C28: shuffleList returns a permutation of the list it was given (the same
\* length, every element as often as before) and leaves that list as it
\* was; every permutation of the list is returned for some draws.
C28_ShuffleIsPermutation ==
  ShuffleCalled =>
    /\ IsPermutation(call.result, call.before)
    /\ call.source = call.before
    /\ \A p \in PermutationsOf(call.before) :
         \E rnd \in Draws(Len(call.before)) : shuffleList(call.before, rnd) = p

\* A list with a repeated hero came back in another order.
C28_Witness ==
  /\ ShuffleCalled
  /\ Len(call.before) = 3
  /\ call.before[1] = call.before[2] /\ call.before[3] # call.before[1]
  /\ call.result # call.before

\* C29 as stated: for a pool of n >= 2 heroes the winning index is 0 with
\* probability 0.65 / n and each other index with probability 1 / n.
C29_NonZeroIndexUniform ==
  (RandomIndexCalled /\ call.availableCount >= 2) =>
    LET n == call.availableCount
        all == Cardinality(RandomOutcomes(n))
    IN IF call.result = 0
       THEN Favourable(n, 0) * 100 * n = (100 - REROLL_PERCENT) * all
       ELSE Favourable(n, call.result) * n = all

\* C29: for a pool of n >= 2 heroes the winning index is 0 with probability
\* 0.65 / n and each other index with probability
\* 1 / n + 0.35 / (n * (n - 1)).
C29_RerollMovesOddsToOthers ==
  (RandomIndexCalled /\ call.availableCount >= 2) =>
    LET n == call.availableCount
        all == Cardinality(RandomOutcomes(n))
    IN IF call.result = 0
       THEN Favourable(n, 0) * 100 * n = (100 - REROLL_PERCENT) * all
       ELSE Favourable(n, call.result) * 100 * n * (n - 1)
              = (100 * (n - 1) + REROLL_PERCENT) * all

\* The first draw was 0 and the re-roll selected another hero.
C29_Witness ==
  /\ RandomIndexCalled
  /\ call.availableCount >= 2
  /\ call.r0 = 0 /\ call.result # 0

TickSounds(played) == Cardinality({i \in 1..Len(played) : played[i].kind = "tick"})

\* C30: a frame of a spin fires a tick exactly when the slot index
\* floor(-currentOffset / slotWidth) mod poolSize of the offset it applies
\* differs from the index recorded at the tick before; the first frame of a
\* spin always ticks, no frame fires more than one tick, and the index of the
\* frame is the one recorded for the next frame.
C30_TickOnSlotChange ==
  [][StepRuns =>
       LET c == Running
           slotIndex == ((-spinTrace'.offset) \div c.slotWidth) % Len(c.shuffledHeroes)
           ticked == spinTrace'.ticks = spinTrace.ticks + 1
       IN /\ spinTrace'.ticks \in {spinTrace.ticks, spinTrace.ticks + 1}
          /\ ticked <=> slotIndex # c.lastHeroIndex
          /\ firstFrameAt = -1 => ticked
          /\ Audible => TickSounds(sounds') = (IF ticked THEN 1 ELSE 0)
          /\ \A f \in PendingSteps' : f.c.lastHeroIndex = slotIndex]_vars

\* A spin that scrolled over more than two slots has completed with two
\* ticks in all.
C30_Witness ==
  /\ event.op = "complete"
  /\ Audible
  /\ Kinds(sounds) = <<"tick", "finish">>
  /\ spinTrace.ticks = 2

\* C31: while a spin is in progress only the frame callback of the spin
\* writes the offset of the strip: a centring callback requested before the
\* spin, a reset or any other handler leaves the raw offset and the
\* transform as they are until the spin has completed.
C31_OnlyStepMovesStripInSpin ==
  [][(isSpinningRef /\ mounted /\ ~StepRuns)
       => /\ event'.op \notin {"centre", "reset"}
          /\ UNCHANGED <<virtualOffsetRef, transform>>]_vars

\* C32: while a spin is in progress the bans and the selected roles stay as
\* they were when the spin was accepted, and the base list is not shuffled
\* again.
C32_PoolFixedInSpin ==
  [][(isSpinningRef /\ mounted)
       => UNCHANGED <<bannedHeroIds, selectedRoles, baseHeroesRef, baseHeroesState>>]_vars

\* C33: the list an accepted spin works on holds exactly the heroes of the
\* catalog that are not banned and have a selected role (every hero that is
\* not banned when no role is selected) at the call, and the winner the spin
\* publishes is one of them.
C33_WinnerWasActiveAtSpin ==
  [][/\ (SpinCalled /\ event'.op = "spin")
          => /\ poolAtSpin' = Range(activeHeroes(heroes, selectedRoles, bannedHeroIds))
             /\ Range(baseHeroesRef') = poolAtSpin'
     /\ event'.op = "complete" => event'.winner \in poolAtSpin]_vars

\* The AI recommendations section is rendered (lines 908, 1144).
RecommendationsShown ==
  selectedHero # None /\ showItems /\ aiRecommendations # None

\* C34: the AI recommendations that are shown were requested for the hero
\* that is selected now.
C34_ShownRecommendationsOfSelection ==
  RecommendationsShown => aiRecommendations = selectedHero

Distinct(team) == \A i, j \in 1..Len(team) : team[i] = team[j] => i = j

\* C35: each team holds at most 5 heroes, no hero twice, and no hero is in
\* both teams.
C35_TeamsBoundedAndDisjoint ==
  /\ Len(myTeamHeroes) <= 5 /\ Len(enemyTeamHeroes) <= 5
  /\ Distinct(myTeamHeroes) /\ Distinct(enemyTeamHeroes)
  /\ Range(myTeamHeroes) \cap Range(enemyTeamHeroes) = {}

\* One team is full and the other holds the only hero left.
C35_Witness ==
  /\ Len(myTeamHeroes) + Len(enemyTeamHeroes) = Len(heroes)
  /\ Len(enemyTeamHeroes) = 5
  /\ selectedHero # None /\ ~InTeam(myTeamHeroes, selectedHero)

RolesMapped == call.fn = "mapRoleIdToHeroRole" /\ call.done
Has(role) == role \in call.roleIds

\* C39: mapRoleIdToHeroRole returns a list without duplicates that holds
\* carry iff CARRY is given, mid iff NUKER or PUSHER, offlane iff INITIATOR
\* or DURABLE without CARRY, hard-support iff SUPPORT, soft-support iff
\* SUPPORT with one of DISABLER, NUKER, INITIATOR, PUSHER; it is empty
\* exactly when none of CARRY, NUKER, PUSHER, INITIATOR, DURABLE, SUPPORT is
\* given, and the fallback block adds nothing.
C39_RoleMapping ==
  RolesMapped =>
    LET out == Range(call.result)
    IN /\ Distinct(call.result)
       /\ out \subseteq {"carry", "mid", "offlane", "hard-support", "soft-support"}
       /\ "carry" \in out <=> Has("CARRY")
       /\ "mid" \in out <=> (Has("NUKER") \/ Has("PUSHER"))
       /\ "offlane" \in out <=> (Has("INITIATOR") \/ (Has("DURABLE") /\ ~Has("CARRY")))
       /\ "hard-support" \in out <=> Has("SUPPORT")
       /\ "soft-support" \in out <=>
            (Has("SUPPORT") /\ (Has("DISABLER") \/ Has("NUKER") \/ Has("INITIATOR")
                                   \/ Has("PUSHER")))
       /\ call.result = <<>> <=>
            call.roleIds \cap {"CARRY", "NUKER", "PUSHER", "INITIATOR", "DURABLE",
                               "SUPPORT"} = {}
       /\ call.result = call.beforeFallback

\* A durable carry that is also a disabling support has been mapped: no
\* offlane, both support roles.
C39_Witness ==
  /\ RolesMapped
  /\ call.roleIds = {"CARRY", "DURABLE", "SUPPORT", "DISABLER"}
  /\ call.result = <<"carry", "hard-support", "soft-support">>

\* This step is the return of a call of one of the three fetch operations.
FetchReturns == completed' = completed + 1 /\ returned'.fn \in FetchOperations
\* This step is the return of a loadHeroes call.
LoadReturns == completed' = completed + 1 /\ returned'.caller = "loadHeroes"
\* The entry of the operation is an array younger than its TTL (and, for the
\* win statistics, with data younger than 30 days) now.
EntryFresh(fn) ==
  LET e == localStorage[fn]
      ttl == IF fn = "fetchAllHeroWinStats" THEN 6 ELSE 24
      dataAge == IF e.dataTimestamp # 0 THEN clock - e.dataTimestamp
                 ELSE clock - e.timestamp
  IN /\ e.present /\ e.parsable /\ e.isArray
     /\ clock - e.timestamp < ttl
     /\ (fn = "fetchAllHeroWinStats" => dataAge < 30 * 24)
\* The entry of the operation after this step holds the data the call
\* returned, stamped with the current time.
EntryRenewed(fn) ==
  /\ localStorage'[fn].present /\ localStorage'[fn].parsable /\ localStorage'[fn].isArray
  /\ localStorage'[fn].data = returned'.fetched.data
  /\ localStorage'[fn].timestamp = clock

\* C36 as stated: a fetch operation serves its cache entry only while the
\* entry is fresh and an array, without a network request; otherwise it
\* queries the API and on a valid response overwrites the entry with the new
\* data stamped with the current time.
C36_ServesFreshElseQueries ==
  [][FetchReturns =>
       /\ returned'.served =>
            EntryFresh(returned'.fn) /\ requestsSent' = requestsSent
       /\ ~returned'.served => returned'.requested
       /\ (returned'.requested /\ returned'.outcome = "valid")
            => EntryRenewed(returned'.fn)]_vars

\* C36, amended: the API is queried when the entry is not served and an API
\* key is configured, and the entry is overwritten on a valid response
\* unless localStorage rejects the write.
C36_ServesFreshElseQueriesWithKey ==
  [][FetchReturns =>
       /\ returned'.served =>
            EntryFresh(returned'.fn) /\ requestsSent' = requestsSent
       /\ (~returned'.served /\ apiKey) => returned'.requested
       /\ (returned'.requested /\ returned'.outcome = "valid" /\ ~storageFull)
            => EntryRenewed(returned'.fn)]_vars

\* A stale entry of the win statistics has been replaced by the list of a
\* valid response.
C36_Witness ==
  /\ returned.fn = "fetchAllHeroWinStats" /\ returned.requested
  /\ returned.outcome = "valid" /\ returned.fetched.data = <<1, 2, 3>>
  /\ localStorage["fetchAllHeroWinStats"].data = <<1, 2, 3>>
  /\ localStorage["fetchAllHeroWinStats"].timestamp = clock
  /\ clock > Epoch

\* C37: a fetch operation returns null without throwing and leaves its cache
\* entry as it was when the API key is missing, the response is not OK, the
\* body cannot be parsed, GraphQL errors are present or the payload has the
\* wrong shape.
C37_FailureReturnsNullKeepsEntry ==
  [][(FetchReturns /\ returned'.outcome \in {"noKey", "notOk", "unparsable", "errors",
                                              "missing", "notArray"})
       => /\ returned'.fetched.isNull
          /\ ~returned'.threw
          /\ localStorage' = localStorage]_vars

\* C38: once loadHeroes has returned a list every later call returns that
\* list without calling fetchHeroes; a failed load returns null and leaves
\* both caches as they were, and a call that finds no cached list calls
\* fetchHeroes; the role cache is set whenever the hero cache is set.
C38_LoadHeroesCachesOnce ==
  [][/\ (LoadReturns /\ returned'.listsBefore # {})
          => /\ \A list \in returned'.listsBefore :
                  ~returned'.value.isNull /\ returned'.value.data = list
             /\ apiCalls' = apiCalls
     /\ (LoadReturns /\ (returned'.fetched.isNull \/ returned'.fetched.data = <<>>)
          /\ returned'.outcome # "loaded")
          => /\ returned'.value.isNull
             /\ UNCHANGED <<heroesCache, stratzHeroesCache>>
     /\ (subject = "loadHeroes" /\ begun' = begun + 1 /\ ~heroesCache.loaded)
          => apiCalls' = apiCalls + 1
     /\ heroesCache' # heroesCache
          => stratzHeroesCache'.loaded /\ stratzHeroesCache' = heroesCache']_vars

====
